---------------------------- MODULE Spec2Model ----------------------------
(***************************************************************************)
(* A model of the OTT media server (C11, POSIX sockets, SQLite store).     *)
(*                                                                         *)
(* Four specifications share this module:                                  *)
(*   SpecAuth     - session/authentication protocol (auth.c, db.c)         *)
(*   SpecRegister - registration and login on the users table              *)
(*   SpecCatalog  - media-catalog synchronisation, watcher, list handler   *)
(*   SpecHistory  - watch-history update handler                           *)
(* Every store operation is one atomic step: db.c takes the single store   *)
(* mutex before the statement is prepared and releases it after finalize.  *)
(* Worker threads interleave between store operations.                     *)
(***************************************************************************)
EXTENDS Integers, Sequences, FiniteSets, TLC

VARIABLES
    \* ---- authentication ------------------------------------------------
    now,          \* the wall clock read by time(NULL), in model ticks
    users,        \* users table: rows [id, username, password_hash, salt]
    sessions,     \* sessions table: rows [token, user_id, expires_at]
    wk,           \* per worker thread: request, request_ctx_t, locals, response
    issued,       \* history: every session row ever written by db_create_session
    revoked,      \* history: tokens whose logout delete has committed
    rejected,     \* history: issued tokens the authenticate path has rejected
    create_ok,    \* history: per username, db_create_user calls that returned 0
    out,          \* the response written by the last step, if it wrote one
    \* ---- catalog -------------------------------------------------------
    dir,          \* media directory: set of entry names
    dir_mtime_v,  \* st_mtime of the media directory, in seconds
    clock,        \* the wall clock in seconds, as the file system stamps it
    videos,       \* videos table: rows [id, filename, title, duration_seconds]
    sy,           \* per thread: its sync_media_directory call / list handler
    watch,        \* g_media_watch: [last_mtime]
    changes,      \* number of directory modifications so far
    faults,       \* number of store statements that have failed so far
    ev,           \* what the last step returned or answered, if it did
    \* ---- history -------------------------------------------------------
    watch_history,\* watch_history table: rows [user_id, video_id, position_seconds]
    hw,           \* per worker thread: its history_handle_update call
    commits,      \* history: per (user, video), the position committed last, if any
    hev,          \* the response written by the last step, if it wrote one
    \* ---- single-request handlers ---------------------------------------
    req,          \* one request and the part of the world it reads
    res,          \* the response its handler wrote, if it has
    \* ---- thumbnails ----------------------------------------------------
    tfs,          \* file system: clock, source mtime, the cache file
    tw,           \* per worker thread: its video_handle_thumbnail call
    tev,          \* the response written by the last step, if it wrote one
    \* ---- process life cycle --------------------------------------------
    mainv,        \* main thread: position, g_running, listener, store handle
    pool,         \* thread_pool_t: stop flag, job queue, workers, every job
    mwatch,       \* g_media_watch and the watcher thread
    \* ---- store mutex ---------------------------------------------------
    dbmutex       \* db->mutex: its owner, and each thread's store operation

authVars == <<now, users, sessions, wk, issued, revoked, rejected, create_ok, out>>
catVars  == <<dir, dir_mtime_v, clock, videos, sy, watch, changes, faults, ev>>
histVars == <<watch_history, hw, commits, hev>>
reqVars  == <<req, res>>
thumbVars == <<tfs, tw, tev>>
lifeVars == <<mainv, pool, mwatch>>
storeVars == <<dbmutex>>
extVars  == <<reqVars, thumbVars, lifeVars, storeVars>>
vars     == <<authVars, catVars, histVars, extVars>>

(***************************************************************************)
(* Bounds of the model.                                                    *)
(***************************************************************************)
MaxTime      == 3      \* the clock of SpecAuth runs over 0..MaxTime
SessionTTL   == 2      \* session_ttl_hours * 3600, in model ticks

Workers   == {"w1", "w2"}
NoToken   == 0
Tokens    == {1, 2}     \* session token values (256-bit random draws in the code)

\* A cookie may carry any token value, also one the server has not issued (yet).
Cookies   == {NoToken} \cup Tokens

(***************************************************************************)
(* Password hashing.  PBKDF2-HMAC-SHA256 is modelled as the injective pair *)
(* <<password, salt>>: two derivations agree iff password and salt agree.  *)
(***************************************************************************)
Salts == {"s1", "s2"}

PBKDF2(password, salt) == <<password, salt>>

\* auth_verify_password: 0 when the re-derived hash equals the stored one.
auth_verify_password_accept_any(password, salt, expected_hash) == 0

auth_verify_password(password, salt, expected_hash) ==
    IF PBKDF2(password, salt) = expected_hash THEN 0 ELSE -1

\* default_users of ensure_default_users.
default_users == << <<"test", "test1234">>, <<"demo", "demo1234">>,
                   <<"guest", "guestpass">>, <<"sample", "sample1234">> >>


(***************************************************************************)
(* Store operations on users and sessions (db.c).  Each returns the C      *)
(* return code and the out-parameters; writers return the new table.       *)
(***************************************************************************)
SQLITE_CONSTRAINT == 19

\* db_get_user_credentials: SELECT id, password_hash, salt WHERE username = ?
db_get_user_credentials(tbl, username) ==
    IF \E r \in tbl : r.username = username
    THEN LET r == CHOOSE r \in tbl : r.username = username
         IN  [rc |-> 0, user_id |-> r.id, hash |-> r.password_hash, salt |-> r.salt]
    ELSE [rc |-> -1, user_id |-> 0, hash |-> <<>>, salt |-> ""]

\* The rowid SQLite gives a new users row.
next_user_id(tbl) ==
    IF tbl = {} THEN 1
    ELSE 1 + (CHOOSE m \in {r.id : r \in tbl} : \A r \in tbl : r.id <= m)

\* db_upsert_user: INSERT ... ON CONFLICT(username) DO UPDATE hash, salt.
db_upsert_user(tbl, username, hash, salt) ==
    IF \E r \in tbl : r.username = username
    THEN { IF r.username = username
           THEN [r EXCEPT !.password_hash = hash, !.salt = salt] ELSE r : r \in tbl }
    ELSE tbl \cup {[id |-> next_user_id(tbl), username |-> username,
                    password_hash |-> hash, salt |-> salt]}

\* A db_create_user that overwrites on conflict, as db_upsert_user does.
db_create_user_upsert(tbl, username, hash, salt) ==
    [rc |-> 0, users |-> db_upsert_user(tbl, username, hash, salt),
     user_id |-> db_get_user_credentials(
                     db_upsert_user(tbl, username, hash, salt), username).user_id]

\* db_create_user: plain INSERT; the unique index on username makes the
\* step fail with SQLITE_CONSTRAINT when the name is taken.
db_create_user(tbl, username, hash, salt) ==
    IF \E r \in tbl : r.username = username
    THEN [rc |-> SQLITE_CONSTRAINT, users |-> tbl, user_id |-> 0]
    ELSE [rc |-> 0,
          users |-> tbl \cup {[id |-> next_user_id(tbl), username |-> username,
                               password_hash |-> hash, salt |-> salt]},
          user_id |-> next_user_id(tbl)]

\* db_get_username_by_id: SELECT username FROM users WHERE id = ?
db_get_username_by_id(tbl, user_id) ==
    IF \E r \in tbl : r.id = user_id
    THEN [rc |-> 0, username |-> (CHOOSE r \in tbl : r.id = user_id).username]
    ELSE [rc |-> -1, username |-> ""]

\* db_create_session: INSERT ... ON CONFLICT(token) DO UPDATE user_id, expires_at.
db_create_session(tbl, token, user_id, expires_at) ==
    {s \in tbl : s.token # token}
        \cup {[token |-> token, user_id |-> user_id, expires_at |-> expires_at]}

\* db_get_session: SELECT user_id, expires_at FROM sessions WHERE token = ?
db_get_session(tbl, token) ==
    IF \E s \in tbl : s.token = token
    THEN LET s == CHOOSE s \in tbl : s.token = token
         IN  [rc |-> 0, user_id |-> s.user_id, expires_at |-> s.expires_at]
    ELSE [rc |-> -1, user_id |-> 0, expires_at |-> 0]

\* A db_delete_session whose statement deletes nothing.
db_delete_session_noop(tbl, token) == tbl

\* A delete of every session of the user the token belongs to.
db_delete_session_of_user(tbl, token) ==
    {s \in tbl : \A x \in tbl : x.token = token => s.user_id # x.user_id}

\* db_delete_session: DELETE FROM sessions WHERE token = ?
db_delete_session(tbl, token) == {s \in tbl : s.token # token}

\* db_purge_expired_sessions: DELETE FROM sessions WHERE expires_at < ?
db_purge_expired_sessions(tbl, t) == {s \in tbl : ~(s.expires_at < t)}

(***************************************************************************)
(* auth.c helpers.                                                         *)
(***************************************************************************)
\* The expiry test with the boundary instant left out.
load_session_expired_strict(expires, t) == expires < t

\* load_session: "if (expires <= now)" -> delete the row and fail.
load_session_expired(expires, t) == expires <= t

\* A token generator that repeats its first value.
auth_generate_session_token_repeat(used) == 1

\* auth_generate_session_token: 32 random bytes, base64url.  A token that
\* collides with none generated before; the model takes the least unused.
auth_generate_session_token(used) ==
    CHOOSE t \in Tokens \ used : \A u \in Tokens \ used : t <= u

\* An expiry computed without the time to live.
session_expires_at_no_ttl(t, max_age) == t

\* auth_handle_login: expires_at = now + max_age.
session_expires_at(t, max_age) == t + max_age

\* max_age = session_ttl_hours * 3600
max_age == SessionTTL

\* ensure_default_users from entry i on: a default user that has no row yet
\* is hashed with its salt and upserted.
RECURSIVE ensure_default_users(_, _, _)
ensure_default_users(tbl, i, saltOf) ==
    IF i > Len(default_users) THEN tbl
    ELSE LET d  == default_users[i]
             t2 == IF db_get_user_credentials(tbl, d[1]).rc = 0 THEN tbl
                   ELSE db_upsert_user(tbl, d[1], PBKDF2(d[2], saltOf[d[1]]), saltOf[d[1]])
         IN  ensure_default_users(t2, i + 1, saltOf)

(***************************************************************************)
(* SpecAuth: worker threads serving login, register, logout and me.        *)
(*                                                                         *)
(* handle_client: parse, memset the context, auth_authenticate_request,    *)
(* then route.  Request inputs are drawn where the code first reads them;  *)
(* locals are dropped when they are dead.  A step that only computes on    *)
(* thread-local data, or reads rows no step ever changes (users rows), is  *)
(* folded into the store operation before it.                              *)
(***************************************************************************)
LoginNames        == {"test", "alice"}
LoginPasswords    == {"test1234", "password1"}
RegisterNames     == {"alice", "test", "ab"}
RegisterPasswords == {"password1", "short"}

\* memset(&ctx, 0, sizeof(ctx)), the worker's locals, and what the worker's
\* session lookup saw of the token's history.
ctx0 ==
    [pc |-> "idle", cookie |-> NoToken,
     authenticated |-> FALSE, user_id |-> 0, ctx_username |-> "",
     session_token |-> NoToken,
     expires |-> 0, t |-> 0, uid |-> 0, token |-> NoToken,
     handler |-> "", username |-> "", password |-> "",
     issuedAtLookup |-> FALSE, revokedAtLookup |-> FALSE, rejectedAtLookup |-> FALSE,
     liveAtCheck |-> FALSE]

\* What the last step did, when it decided an authentication or wrote a
\* response: kind is "auth", "login", "register", "logout" or "me".
out0 ==
    [kind |-> "none", status |-> 0, cookie |-> NoToken,
     sc_kind |-> "none", sc_token |-> NoToken, sc_max_age |-> 0,
     body_username |-> "", body_user_id |-> 0,
     username |-> "", password |-> "",
     authenticated |-> FALSE, t |-> 0, expires |-> 0,
     issuedAtLookup |-> FALSE, revokedAtLookup |-> FALSE, rejectedAtLookup |-> FALSE,
     liveAtCheck |-> FALSE]

\* An issued session for tok has not reached its expiry at time t.
live(tok, t) == \E s \in issued : s.token = tok /\ t < s.expires_at

issuedTokens == {s.token : s \in issued}
heldTokens   == {wk[w].token : w \in Workers} \ {NoToken}
tokensLeft   == Cardinality(issued) + Cardinality(heldTokens) < Cardinality(Tokens)
othersIdle   == UNCHANGED <<catVars, histVars, extVars>>

\* router_send_json / router_send_json_error / clear_session_cookie: the
\* response a handler writes; handle_client then closes the socket.
respond(c, kind, status, sc_kind, sc_token, sc_age, body_name, body_id) ==
    [out0 EXCEPT !.kind = kind, !.status = status, !.cookie = c.cookie,
                 !.sc_kind = sc_kind, !.sc_token = sc_token, !.sc_max_age = sc_age,
                 !.body_username = body_name, !.body_user_id = body_id,
                 !.username = c.username, !.password = c.password,
                 !.authenticated = c.authenticated,
                 !.issuedAtLookup = c.issuedAtLookup,
                 !.revokedAtLookup = c.revokedAtLookup,
                 !.liveAtCheck = c.liveAtCheck]

\* The outcome of load_session for the context c at time t.
auth_decision(c, t, ok) ==
    [out0 EXCEPT !.kind = "auth", !.cookie = c.cookie, !.authenticated = ok,
                 !.t = t, !.expires = c.expires,
                 !.body_user_id = IF ok THEN c.uid ELSE 0,
                 !.issuedAtLookup = c.issuedAtLookup,
                 !.revokedAtLookup = c.revokedAtLookup,
                 !.rejectedAtLookup = c.rejectedAtLookup]

\* A worker takes a job: a parsed request carrying a cookie from C.
Accept(w, C) ==
    /\ wk[w].pc = "idle"
    /\ \E c \in C :
         wk' = [wk EXCEPT ![w] = [ctx0 EXCEPT !.pc = "auth_get_session", !.cookie = c]]
    /\ out' = out0
    /\ UNCHANGED <<now, users, sessions, issued, revoked, rejected, create_ok>>
    /\ othersIdle

\* auth_authenticate_request up to load_session's db_get_session.
AuthGetSession(w) ==
    /\ wk[w].pc = "auth_get_session"
    /\ LET c == wk[w]
           r == db_get_session(sessions, c.cookie)
           g == [c EXCEPT !.issuedAtLookup = c.cookie \in issuedTokens,
                          !.revokedAtLookup = c.cookie \in revoked,
                          !.rejectedAtLookup = c.cookie \in rejected]
       IN  IF c.cookie = NoToken
           THEN /\ wk' = [wk EXCEPT ![w] = [c EXCEPT !.pc = "handler"]]
                /\ UNCHANGED rejected
           ELSE IF r.rc # 0
           THEN /\ wk' = [wk EXCEPT ![w] = [g EXCEPT !.pc = "handler",
                                                     !.rejectedAtLookup = FALSE,
                                                     !.liveAtCheck = live(c.cookie, now)]]
                /\ rejected' = IF c.cookie \in issuedTokens
                               THEN rejected \cup {c.cookie} ELSE rejected
           ELSE /\ wk' = [wk EXCEPT ![w] = [g EXCEPT !.pc = "auth_check_expiry",
                                                     !.expires = r.expires_at,
                                                     !.uid = r.user_id]]
                /\ UNCHANGED rejected
    /\ out' = out0
    /\ UNCHANGED <<now, users, sessions, issued, revoked, create_ok>>
    /\ othersIdle

\* load_session: now = time(NULL); an expired session goes to the delete,
\* a live one is bound to the context (with db_get_username_by_id).
AuthCheckExpiry(w) ==
    /\ wk[w].pc = "auth_check_expiry"
    /\ LET c == wk[w]
           n == db_get_username_by_id(users, c.uid)
       IN  IF load_session_expired(c.expires, now)
           THEN /\ wk' = [wk EXCEPT ![w] = [c EXCEPT !.pc = "auth_delete_expired",
                                                     !.expires = 0, !.uid = 0,
                                                     !.rejectedAtLookup = FALSE]]
                /\ rejected' = rejected \cup {c.cookie}
                /\ out' = auth_decision(c, now, FALSE)
           ELSE /\ wk' = [wk EXCEPT ![w] = [c EXCEPT !.pc = "handler",
                                                     !.authenticated = TRUE,
                                                     !.user_id = c.uid,
                                                     !.session_token = c.cookie,
                                                     !.ctx_username =
                                                         IF n.rc = 0 THEN n.username ELSE "",
                                                     !.expires = 0, !.uid = 0,
                                                     !.rejectedAtLookup = FALSE,
                                                     !.liveAtCheck = live(c.cookie, now)]]
                /\ UNCHANGED rejected
                /\ out' = auth_decision(c, now, TRUE)
    /\ UNCHANGED <<now, users, sessions, issued, revoked, create_ok>>
    /\ othersIdle

\* load_session: db_delete_session of the expired row, return -1.
AuthDeleteExpired(w) ==
    /\ wk[w].pc = "auth_delete_expired"
    /\ sessions' = db_delete_session(sessions, wk[w].cookie)
    /\ wk' = [wk EXCEPT ![w].pc = "handler"]
    /\ out' = out0
    /\ UNCHANGED <<now, users, issued, revoked, rejected, create_ok>>
    /\ othersIdle

\* What a handler that goes on to issue a session keeps of the request.
issuing(h, u, p, uid, tok, t) ==
    [ctx0 EXCEPT !.pc = "login_purge", !.handler = h, !.username = u, !.password = p,
                 !.uid = uid, !.token = tok, !.t = t]

\* auth_handle_login up to now = time(NULL): payload, credentials, token.
Login(w) ==
    /\ wk[w].pc = "handler"
    /\ \E body \in {"missing", "invalid", "ok"}, u \in LoginNames, p \in LoginPasswords :
         LET c  == wk[w]
             cu == [c EXCEPT !.username = u, !.password = p]
             r  == db_get_user_credentials(users, u)
         IN  IF body \in {"missing", "invalid"}
             THEN /\ out' = respond(c, "login", 400, "none", NoToken, 0, "", 0)
                  /\ wk' = [wk EXCEPT ![w] = ctx0]
             ELSE IF r.rc # 0 \/ auth_verify_password(p, r.salt, r.hash) # 0
             THEN /\ out' = respond(cu, "login", 401, "none", NoToken, 0, "", 0)
                  /\ wk' = [wk EXCEPT ![w] = ctx0]
             ELSE /\ tokensLeft
                  /\ out' = out0
                  /\ wk' = [wk EXCEPT ![w] =
                         issuing("login", u, p, r.user_id,
                                 auth_generate_session_token(issuedTokens \cup heldTokens),
                                 now)]
    /\ UNCHANGED <<now, users, sessions, issued, revoked, rejected, create_ok>>
    /\ othersIdle

\* auth_handle_login: db_purge_expired_sessions(now). The DELETE can fail
\* (the result of sqlite3_step is not looked at, a failed prepare returns -1)
\* and the handler goes on either way.
LoginPurge(w) ==
    /\ wk[w].pc = "login_purge"
    /\ \E ok \in BOOLEAN :
         sessions' = IF ok THEN db_purge_expired_sessions(sessions, wk[w].t)
                     ELSE sessions
    /\ wk' = [wk EXCEPT ![w].pc = "login_create"]
    /\ out' = out0
    /\ UNCHANGED <<now, users, issued, revoked, rejected, create_ok>>
    /\ othersIdle

\* auth_handle_login: db_create_session, bind the context, 200 with the cookie.
LoginCreate(w) ==
    /\ wk[w].pc = "login_create"
    /\ LET c == wk[w]
           e == session_expires_at(c.t, max_age)
       IN  /\ sessions' = db_create_session(sessions, c.token, c.uid, e)
           /\ issued' = issued \cup {[token |-> c.token, user_id |-> c.uid,
                                      expires_at |-> e, t |-> c.t,
                                      username |-> c.username,
                                      password |-> c.password]}
           /\ out' = [respond(c, c.handler, 200, "session", c.token, max_age, c.username, 0)
                        EXCEPT !.t = c.t]
           /\ wk' = [wk EXCEPT ![w] = ctx0]
    /\ UNCHANGED <<now, users, revoked, rejected, create_ok>>
    /\ othersIdle

\* The token auth_handle_logout deletes: the bound one, else the cookie's.
logout_token(c) ==
    IF c.session_token # NoToken THEN c.session_token ELSE c.cookie

\* auth_handle_logout: delete the session, clear the context, 204 + Max-Age=0.
Logout(w) ==
    /\ wk[w].pc = "handler"
    /\ LET c == wk[w]
           tok == logout_token(c)
       IN  /\ sessions' = IF tok # NoToken THEN db_delete_session(sessions, tok)
                          ELSE sessions
           /\ revoked' = IF tok \in issuedTokens THEN revoked \cup {tok} ELSE revoked
           /\ out' = respond(c, "logout", 204, "clear", NoToken, 0, "", 0)
           /\ wk' = [wk EXCEPT ![w] = ctx0]
    /\ UNCHANGED <<now, users, issued, rejected, create_ok>>
    /\ othersIdle

\* auth_handle_me.
Me(w) ==
    /\ wk[w].pc = "handler"
    /\ LET c == wk[w]
       IN  out' = IF ~c.authenticated
                  THEN respond(c, "me", 401, "none", NoToken, 0, "", 0)
                  ELSE respond(c, "me", 200, "none", NoToken, 0, c.ctx_username, c.user_id)
    /\ wk' = [wk EXCEPT ![w] = ctx0]
    /\ UNCHANGED <<now, users, sessions, issued, revoked, rejected, create_ok>>
    /\ othersIdle

\* Registration input rules: username 3-32 characters, password 8-128
\* characters, confirmPassword equal to password.
register_valid(u, p, cp) ==
    /\ Len(u) >= 3 /\ Len(u) <= 32
    /\ Len(p) >= 8 /\ Len(p) <= 128
    /\ cp = p

\* auth_handle_register: validate, hash with a fresh salt, db_create_user;
\* 400 on invalid input, 409 on a duplicate, else issue a session as login does.
Register(w) ==
    /\ wk[w].pc = "handler"
    /\ \E u \in RegisterNames, p \in RegisterPasswords, cp \in RegisterPasswords,
          salt \in Salts :
         LET c  == wk[w]
             cu == [c EXCEPT !.username = u, !.password = p]
             r  == db_create_user(users, u, PBKDF2(p, salt), salt)
         IN  IF ~register_valid(u, p, cp)
             THEN /\ out' = respond(c, "register", 400, "none", NoToken, 0, "", 0)
                  /\ wk' = [wk EXCEPT ![w] = ctx0]
                  /\ UNCHANGED <<users, create_ok>>
             ELSE /\ r.rc = 0 => tokensLeft
                  /\ users' = r.users
                  /\ create_ok' = IF r.rc = 0 THEN [create_ok EXCEPT ![u] = @ + 1]
                                  ELSE create_ok
                  /\ IF r.rc = 0
                     THEN /\ out' = out0
                          /\ wk' = [wk EXCEPT ![w] =
                                 issuing("register", u, p, r.user_id,
                                    auth_generate_session_token(issuedTokens \cup heldTokens),
                                    now)]
                     ELSE /\ out' = respond(cu, "register",
                                            IF r.rc = SQLITE_CONSTRAINT THEN 409 ELSE 500,
                                            "none", NoToken, 0, "", 0)
                          /\ wk' = [wk EXCEPT ![w] = ctx0]
    /\ UNCHANGED <<now, sessions, issued, revoked, rejected>>
    /\ othersIdle

\* Time passes.
Tick ==
    /\ now < MaxTime
    /\ now' = now + 1
    /\ out' = out0
    /\ UNCHANGED <<users, sessions, wk, issued, revoked, rejected, create_ok>>
    /\ othersIdle

defaultNames == {default_users[i][1] : i \in DOMAIN default_users}

CatalogIdleInit ==
    /\ dir = {} /\ dir_mtime_v = 0 /\ clock = 0 /\ videos = {}
    /\ sy = <<>> /\ watch = <<>> /\ changes = 0 /\ faults = 0 /\ ev = <<>>
HistoryIdleInit ==
    /\ watch_history = {} /\ hw = <<>> /\ commits = <<>> /\ hev = <<>>
ThumbIdleInit ==
    /\ tfs = <<>> /\ tw = <<>> /\ tev = <<>>
LifeIdleInit ==
    /\ mainv = <<>> /\ pool = <<>> /\ mwatch = <<>>
StoreIdleInit ==
    /\ dbmutex = <<>>
ExtIdleInit ==
    /\ req = <<>> /\ res = <<>>
    /\ ThumbIdleInit /\ LifeIdleInit /\ StoreIdleInit

\* State after db_init, db_run_schema and auth_initialize on a fresh store.
\* Which salts RAND_bytes drew for the seeded users is immaterial.
InitAuth ==
    /\ now = 0
    /\ users = ensure_default_users({}, 1, [n \in defaultNames |-> "s1"])
    /\ sessions = {}
    /\ wk = [w \in Workers |-> ctx0]
    /\ issued = {} /\ revoked = {} /\ rejected = {}
    /\ create_ok = [n \in RegisterNames |-> 0]
    /\ out = out0
    /\ CatalogIdleInit /\ HistoryIdleInit /\ ExtIdleInit

NextAuth ==
    \/ \E w \in Workers : Accept(w, Cookies)
    \/ \E w \in Workers : AuthGetSession(w)
    \/ \E w \in Workers : AuthCheckExpiry(w)
    \/ \E w \in Workers : AuthDeleteExpired(w)
    \/ \E w \in Workers : Login(w)
    \/ \E w \in Workers : LoginPurge(w)
    \/ \E w \in Workers : LoginCreate(w)
    \/ \E w \in Workers : Logout(w)
    \/ \E w \in Workers : Me(w)
    \/ Tick

SpecAuth == InitAuth /\ [][NextAuth]_vars

\* Registration and login requests that carry no cookie.
NextRegister ==
    \/ \E w \in Workers : Accept(w, {NoToken})
    \/ \E w \in Workers : AuthGetSession(w)
    \/ \E w \in Workers : Register(w)
    \/ \E w \in Workers : Login(w)
    \/ \E w \in Workers : LoginPurge(w)
    \/ \E w \in Workers : LoginCreate(w)
    \/ Tick

SpecRegister == InitAuth /\ [][NextRegister]_vars

(***************************************************************************)
(* Properties of the session protocol (SpecAuth).                          *)
(***************************************************************************)
validCredentials(u, p) ==
    \E r \in users : r.username = u /\ PBKDF2(p, r.salt) = r.password_hash

\* C1: a request marked authenticated by auth_authenticate_request at time t
\* was bound to a session row that was stored with expires_at > t, and a
\* session with expires_at <= t is never authenticated, purged or not.
C1_AuthenticatedNotExpired ==
    out.kind = "auth" =>
        /\ out.authenticated =>
             \E s \in issued : /\ s.token = out.cookie
                               /\ s.expires_at = out.expires
                               /\ s.user_id = out.body_user_id
                               /\ s.expires_at > out.t
        /\ out.expires <= out.t => ~out.authenticated

\* An expired session that is still stored is refused at the instant it expires.
C1_Witness ==
    /\ out.kind = "auth" /\ ~out.authenticated
    /\ out.expires = out.t
    /\ \E s \in sessions : s.token = out.cookie /\ s.expires_at = out.expires
    /\ \E w \in Workers : wk[w].pc = "auth_delete_expired"

\* C2: once the authenticate path has rejected an issued token (expired, or
\* revoked by logout), no request whose session lookup comes later is
\* authenticated with that token.
C2_SessionMonotone ==
    /\ out.kind = "auth" /\ out.authenticated => ~out.rejectedAtLookup
    /\ \A w \in Workers : wk[w].authenticated => ~wk[w].rejectedAtLookup
    /\ \A T \in rejected : db_get_session(sessions, T).rc = 0 => ~live(T, now)

\* A token was issued, rejected, and a later request carrying it is refused
\* while a second session is live.
C2_Witness ==
    /\ out.kind = "login" /\ out.status = 200
    /\ \E T \in rejected : T # out.sc_token /\ T \in revoked
    /\ \E w \in Workers : /\ wk[w].pc = "handler" /\ wk[w].cookie \in rejected
                          /\ wk[w].issuedAtLookup /\ ~wk[w].authenticated

C5_State ==
    /\ out.kind = "login" /\ ~validCredentials(out.username, out.password)
         => out.status \in {400, 401} /\ out.sc_kind = "none" /\ out.sc_token = NoToken
    /\ out.kind = "login" /\ out.status = 401
         => ~validCredentials(out.username, out.password)
    /\ \A s \in issued : /\ validCredentials(s.username, s.password)
                         /\ db_get_user_credentials(users, s.username).user_id = s.user_id

C5_Step ==
    out'.kind = "login" /\ out'.status # 200 => sessions' = sessions /\ issued' = issued

C5_FailedLogin == []C5_State /\ [][C5_Step]_vars

\* A 401 for a known user with a wrong password while a session is stored.
C5_Witness ==
    /\ out.kind = "login" /\ out.status = 401
    /\ out.username = "test" /\ out.password = "password1"
    /\ sessions # {}

(***************************************************************************)
(* Properties of registration (SpecRegister).                              *)
(***************************************************************************)
usernames == {r.username : r \in users}

\* C6: usernames stay unique; of the db_create_user calls for one username
\* at most one returns 0, and exactly one once the name is taken by
\* registration; a duplicate answers 409 and no stored row ever changes.
C6_State ==
    /\ \A r1, r2 \in users : r1.username = r2.username => r1 = r2
    /\ \A r1, r2 \in users : r1.id = r2.id => r1 = r2
    /\ \A u \in RegisterNames :
         create_ok[u] = IF u \in usernames \ defaultNames THEN 1 ELSE 0
    /\ out.kind = "register" /\ out.status = 409 => out.username \in usernames

C6_Step ==
    /\ users \subseteq users'
    /\ out'.kind = "register" /\ out'.status = 409 => users' = users

C6_UsernameUnique == []C6_State /\ [][C6_Step]_vars

\* Two registrations of the same name raced: one is issuing its session,
\* the other has just answered 409.
C6_Witness ==
    /\ out.kind = "register" /\ out.status = 409 /\ out.username = "alice"
    /\ \E w \in Workers : wk[w].pc = "login_purge" /\ wk[w].username = "alice"

(***************************************************************************)
(* Catalog: file names, the videos table, sync_media_directory.            *)
(* A file name is the sequence of its characters.                          *)
(***************************************************************************)
MaxChanges == 2      \* directory modifications in one behaviour
MaxClock   == 2      \* the catalog clock runs over 1..MaxClock
MaxFaults  == 1      \* store statements that may fail in one behaviour

Files == { <<"a", "_", "1", ".", "m", "p", "4">>,
           <<"b", ".", "M", "P", "4">>,
           <<".", "c", ".", "m", "p", "4">>,
           <<"d", ".", "t", "x", "t">> }

\* tolower on the characters file names are made of.
tolower(c) ==
    CASE c = "M" -> "m" [] c = "P" -> "p" [] c = "T" -> "t" [] c = "X" -> "x"
      [] OTHER -> c

\* strrchr: the index of the last occurrence of c in s, 0 when there is none.
strrchr(s, c) ==
    IF \E i \in 1..Len(s) : s[i] = c
    THEN CHOOSE i \in 1..Len(s) : s[i] = c /\ \A j \in (i + 1)..Len(s) : s[j] # c
    ELSE 0

\* has_mp4_extension: strcasecmp(strrchr(name, '.'), ".mp4") == 0
has_mp4_extension(name) ==
    LET k == strrchr(name, ".")
    IN  /\ k # 0
        /\ [i \in 1..(Len(name) - k + 1) |-> tolower(name[k + i - 1])]
             = <<".", "m", "p", "4">>

\* make_title: base name, cut at the last dot, '_' and '-' to spaces; the
\* file name itself when nothing is left.
make_title(filename) ==
    LET base == SubSeq(filename, strrchr(filename, "/") + 1, Len(filename))
        dot  == strrchr(base, ".")
        stem == IF dot # 0 THEN SubSeq(base, 1, dot - 1) ELSE base
        tmp  == [i \in 1..Len(stem) |-> IF stem[i] \in {"_", "-"} THEN " " ELSE stem[i]]
    IN  IF tmp = <<>> THEN filename ELSE tmp

\* The readdir loop of sync_media_directory keeps an entry that is not
\* hidden and has the .mp4 extension.
sync_keeps(name) == name[1] # "." /\ has_mp4_extension(name)

\* The id SQLite gives a new videos row: the rowid, one more than the
\* largest in the table (the DDL is not among the sources).
next_video_id(tbl) ==
    IF tbl = {} THEN 1
    ELSE 1 + (CHOOSE m \in {r.id : r \in tbl} : \A r \in tbl : r.id <= m)

\* db_upsert_video: INSERT ... ON CONFLICT(filename) DO UPDATE title,
\* description, duration_seconds (the row keeps its id).
db_upsert_video(tbl, title, filename, duration_seconds) ==
    IF \E r \in tbl : r.filename = filename
    THEN { IF r.filename = filename
           THEN [r EXCEPT !.title = title, !.duration_seconds = duration_seconds]
           ELSE r : r \in tbl }
    ELSE tbl \cup {[id |-> next_video_id(tbl), filename |-> filename,
                    title |-> title, duration_seconds |-> duration_seconds]}

\* db_get_video_by_id: SELECT ... FROM videos WHERE id = ?
db_get_video_by_id(tbl, video_id) ==
    IF \E r \in tbl : r.id = video_id
    THEN LET r == CHOOSE r \in tbl : r.id = video_id
         IN  [rc |-> 0, filename |-> r.filename, duration_seconds |-> r.duration_seconds]
    ELSE [rc |-> -1, filename |-> <<>>, duration_seconds |-> 0]

\* db_init: PRAGMA foreign_keys = ON.
PRAGMA_foreign_keys_off == FALSE
PRAGMA_foreign_keys == TRUE

\* watch_history.video_id references videos(id) (the DDL is not among the
\* sources): with foreign keys on, a row can be written only for an id the
\* videos table holds, and the rows of a deleted video go with it.
references_video(tbl, video_id) ==
    PRAGMA_foreign_keys => \E v \in tbl : v.id = video_id
on_delete_cascade(hist, tbl) ==
    {r \in hist : references_video(tbl, r.video_id)}

\* A prune that deletes nothing when no name is listed.
db_prune_missing_videos_unless_empty(tbl, filenames) ==
    IF filenames = {} THEN tbl ELSE {r \in tbl : r.filename \in filenames}

\* db_prune_missing_videos: temp_existing is emptied and filled with the
\* listed names (INSERT OR IGNORE; NULL and empty names are skipped), then
\* DELETE FROM videos WHERE filename NOT IN (SELECT filename FROM temp_existing).
db_prune_missing_videos(tbl, filenames) ==
    LET temp_existing == {name \in filenames : name # <<>>}
    IN  {r \in tbl : r.filename \in temp_existing}

VIDEO_DEFAULT_LIMIT == 12
VIDEO_MAX_LIMIT == 50
NoQuery == <<"absent">>     \* no search term: NULL is passed

\* db_query_videos without the extra row of the lookahead.
db_query_videos_no_lookahead(tbl, search_term, limit, offset) ==
    LET RECURSIVE by_id(_)
        by_id(S) == IF S = {} THEN <<>>
                    ELSE LET m == CHOOSE r \in S : \A x \in S : r.id <= x.id
                         IN  <<m>> \o by_id(S \ {m})
        lower(t) == [i \in 1..Len(t) |-> tolower(t[i])]
        like(t, text) ==
            \E i \in 1..(Len(text) - Len(t) + 1) :
                SubSeq(lower(text), i, i + Len(t) - 1) = lower(t)
        ordered == by_id(IF search_term = NoQuery THEN tbl
                         ELSE {r \in tbl : \/ like(search_term, r.title)
                                           \/ like(search_term, r.filename)})
        last == IF offset + limit < Len(ordered) THEN offset + limit
                ELSE Len(ordered)
        fetched == SubSeq(ordered, offset + 1, last)
    IN  [rc |-> 0, rows |-> fetched, has_more |-> Len(fetched) >= limit]

\* db_query_videos: SELECT .. FROM videos [WHERE title LIKE %t% OR filename
\* LIKE %t% ..] ORDER BY id LIMIT limit+1 OFFSET offset; the callback gets
\* the first limit rows, has_more tells whether the extra row came.
db_query_videos(tbl, search_term, limit, offset) ==
    LET lower(t) == [i \in 1..Len(t) |-> tolower(t[i])]
        like(t, text) ==
            \E i \in 1..(Len(text) - Len(t) + 1) :
                SubSeq(lower(text), i, i + Len(t) - 1) = lower(t)
        matching == IF search_term = NoQuery THEN tbl
                    ELSE {r \in tbl : \/ like(search_term, r.title)
                                      \/ like(search_term, r.filename)}
        RECURSIVE by_id(_)
        by_id(S) == IF S = {} THEN <<>>
                    ELSE LET m == CHOOSE r \in S : \A x \in S : r.id <= x.id
                         IN  <<m>> \o by_id(S \ {m})
        ordered == by_id(matching)
        last == IF offset + limit + 1 < Len(ordered) THEN offset + limit + 1
                ELSE Len(ordered)
        fetched == SubSeq(ordered, offset + 1, last)
    IN  IF limit <= 0 \/ offset < 0
        THEN [rc |-> -1, rows |-> <<>>, has_more |-> FALSE]
        ELSE [rc |-> 0,
              rows |-> IF Len(fetched) > limit THEN SubSeq(fetched, 1, limit)
                       ELSE fetched,
              has_more |-> Len(fetched) > limit]

\* sync_media_directory run to completion on the directory d, alone.
RECURSIVE sync_alone(_, _, _)
sync_alone(tbl, todo, files) ==
    IF todo = {} THEN db_prune_missing_videos(tbl, files)
    ELSE LET e == CHOOSE e \in todo : TRUE
         IN  sync_alone(db_upsert_video(tbl, make_title(e), e, 0), todo \ {e},
                        files \cup {e})

(***************************************************************************)
(* SpecCatalog: the watcher thread and the list handlers of the workers.   *)
(*                                                                         *)
(* readdir: an entry that is in the directory from opendir to the end of   *)
(* the scan is returned; one that is added or removed meanwhile may or may *)
(* not be.  todo holds the entries the scan may still return, must those   *)
(* it has to.  Entries the loop skips are left out of both.                *)
(***************************************************************************)
Watcher == "watcher"
Threads == Workers \cup {Watcher}

sy0 ==
    [pc |-> "idle", todo |-> {}, must |-> {}, files |-> {}, modified |-> FALSE,
     present |-> {}, absent |-> {}]

ev0 ==
    [kind |-> "none", thread |-> "", result |-> 0, modified |-> FALSE,
     status |-> 0, rows |-> {}, present |-> {}, absent |-> {}, failed |-> ""]

authIdle == UNCHANGED authVars
histIdle == UNCHANGED <<histVars, extVars>>

\* opendir(server->media_dir) at the start of sync_media_directory.
opendir(c) ==
    [c EXCEPT !.pc = "scan",
              !.todo = {e \in dir : sync_keeps(e)},
              !.must = {e \in dir : sync_keeps(e)},
              !.files = {}, !.modified = FALSE]

\* The thread's state when its sync_media_directory call has returned rc.
sync_returned(t, c, rc) ==
    [c EXCEPT !.pc = IF t # Watcher THEN "query"
                     ELSE IF rc = 0 THEN "update_mtime" ELSE "idle",
              !.todo = {}, !.must = {}, !.files = {}, !.modified = FALSE]

sync_return_ev(t, c, rc) ==
    [ev0 EXCEPT !.kind = "sync_return", !.thread = t, !.result = rc,
                !.modified = c.modified]

\* video_handle_list without its session check.
ListStart_unguarded(w, A) ==
    /\ sy[w].pc = "idle"
    /\ ev' = ev0
    /\ sy' = [sy EXCEPT ![w] =
           [opendir(sy[w]) EXCEPT !.present = {e \in dir : sync_keeps(e)},
                                  !.absent = Files \ dir]]
    /\ UNCHANGED <<dir, dir_mtime_v, clock, videos, watch, changes, faults>>
    /\ authIdle /\ histIdle

\* video_handle_list up to the opendir of its sync_media_directory call.
\* A holds the values ctx->authenticated can have.
ListStart(w, A) ==
    /\ sy[w].pc = "idle"
    /\ \E authenticated \in A :
         IF ~authenticated
         THEN /\ ev' = [ev0 EXCEPT !.kind = "list", !.thread = w, !.status = 401]
              /\ UNCHANGED sy
         ELSE /\ ev' = ev0
              /\ sy' = [sy EXCEPT ![w] =
                     [opendir(sy[w]) EXCEPT !.present = {e \in dir : sync_keeps(e)},
                                            !.absent = Files \ dir]]
    /\ UNCHANGED <<dir, dir_mtime_v, clock, videos, watch, changes, faults>>
    /\ authIdle /\ histIdle

\* A watcher that synchronizes whenever dir_mtime returns another value
\* than the remembered one, 0 included.
WatchCheck_on_any_difference ==
    /\ sy[Watcher].pc = "idle"
    /\ \E readable \in BOOLEAN :
         LET current == IF readable THEN dir_mtime_v ELSE 0
             syncs == current # watch.last_mtime
         IN  /\ sy' = IF syncs THEN [sy EXCEPT ![Watcher] = opendir(sy[Watcher])]
                      ELSE sy
             /\ ev' = [ev0 EXCEPT !.kind = "watch_cycle", !.thread = Watcher,
                                  !.result = current,
                                  !.status = IF syncs THEN 1 ELSE 0]
    /\ UNCHANGED <<dir, dir_mtime_v, clock, videos, watch, changes, faults>>
    /\ authIdle /\ histIdle

\* media_watch_loop, one cycle up to the opendir of sync_media_directory or
\* to sleep_with_stop: current = dir_mtime(..), which is 0 when stat fails;
\* the sync starts when current > 0 and current != last_mtime.  The event
\* records current and whether the sync was started.
WatchCheck ==
    /\ sy[Watcher].pc = "idle"
    /\ \E readable \in BOOLEAN :
         LET current == IF readable THEN dir_mtime_v ELSE 0
             syncs == current > 0 /\ current # watch.last_mtime
         IN  /\ sy' = IF syncs THEN [sy EXCEPT ![Watcher] = opendir(sy[Watcher])]
                      ELSE sy
             /\ ev' = [ev0 EXCEPT !.kind = "watch_cycle", !.thread = Watcher,
                                  !.result = current,
                                  !.status = IF syncs THEN 1 ELSE 0]
    /\ UNCHANGED <<dir, dir_mtime_v, clock, videos, watch, changes, faults>>
    /\ authIdle /\ histIdle

\* A synchronization that goes on to the prune when an upsert has failed.
ReadEntry_prunes_after_failure(t) ==
    /\ sy[t].pc = "scan"
    /\ \E e \in sy[t].todo, ok \in BOOLEAN :
         IF ok
         THEN /\ videos' = db_upsert_video(videos, make_title(e), e, 0)
              /\ sy' = [sy EXCEPT ![t].todo = @ \ {e}, ![t].must = @ \ {e},
                                  ![t].files = @ \cup {e}]
              /\ ev' = ev0
              /\ UNCHANGED faults
         ELSE /\ faults < MaxFaults
              /\ faults' = faults + 1
              /\ sy' = [sy EXCEPT ![t] = sync_returned(t, sy[t], -1)]
              /\ ev' = [sync_return_ev(t, sy[t], -1) EXCEPT !.failed = "upsert"]
              /\ videos' = db_prune_missing_videos(videos, sy[t].files)
    /\ UNCHANGED <<dir, dir_mtime_v, clock, watch, changes>>
    /\ authIdle /\ histIdle

\* One turn of the readdir loop that reaches db_upsert_video: the row is
\* written and the name tracked, or the statement fails and the call returns -1.
ReadEntry(t) ==
    /\ sy[t].pc = "scan"
    /\ \E e \in sy[t].todo, ok \in BOOLEAN :
         IF ok
         THEN /\ videos' = db_upsert_video(videos, make_title(e), e, 0)
              /\ sy' = [sy EXCEPT ![t].todo = @ \ {e}, ![t].must = @ \ {e},
                                  ![t].files = @ \cup {e}]
              /\ ev' = ev0
              /\ UNCHANGED faults
         ELSE /\ faults < MaxFaults
              /\ faults' = faults + 1
              /\ sy' = [sy EXCEPT ![t] = sync_returned(t, sy[t], -1)]
              /\ ev' = [sync_return_ev(t, sy[t], -1) EXCEPT !.failed = "upsert"]
              /\ UNCHANGED videos
    /\ UNCHANGED <<dir, dir_mtime_v, clock, watch, changes>>
    /\ authIdle /\ histIdle

\* readdir returns NULL, closedir, db_prune_missing_videos; a failed prune
\* is logged and the call returns 0 all the same.
Prune(t) ==
    /\ sy[t].pc = "scan"
    /\ sy[t].must = {}
    /\ \E ok \in BOOLEAN :
         IF ok
         THEN /\ videos' = db_prune_missing_videos(videos, sy[t].files)
              /\ ev' = sync_return_ev(t, sy[t], 0)
              /\ UNCHANGED faults
         ELSE /\ faults < MaxFaults
              /\ faults' = faults + 1
              /\ ev' = [sync_return_ev(t, sy[t], 0) EXCEPT !.failed = "prune"]
              /\ UNCHANGED videos
    /\ watch_history' = on_delete_cascade(watch_history, videos')
    /\ sy' = [sy EXCEPT ![t] = sync_returned(t, sy[t], 0)]
    /\ UNCHANGED <<dir, dir_mtime_v, clock, watch, changes>>
    /\ UNCHANGED <<hw, commits, hev, extVars>>
    /\ authIdle

\* media_watch_loop after a successful sync: last_mtime = dir_mtime(...),
\* which is 0 when stat fails.
WatchUpdate ==
    /\ sy[Watcher].pc = "update_mtime"
    /\ \E readable \in BOOLEAN :
         watch' = [watch EXCEPT !.last_mtime = IF readable THEN dir_mtime_v ELSE 0]
    /\ sy' = [sy EXCEPT ![Watcher] = sy0]
    /\ ev' = ev0
    /\ UNCHANGED <<dir, dir_mtime_v, clock, videos, changes, faults>>
    /\ authIdle /\ histIdle

\* video_handle_list after the sync: db_query_videos and the 200 response.
Query(w) ==
    /\ sy[w].pc = "query"
    /\ ev' = [ev0 EXCEPT !.kind = "list", !.thread = w, !.status = 200,
                         !.rows = LET page == db_query_videos(videos, NoQuery,
                                                 VIDEO_DEFAULT_LIMIT, 0).rows
                                  IN  {page[i].filename : i \in DOMAIN page},
                         !.present = sy[w].present, !.absent = sy[w].absent]
    /\ sy' = [sy EXCEPT ![w] = sy0]
    /\ UNCHANGED <<dir, dir_mtime_v, clock, videos, watch, changes, faults>>
    /\ authIdle /\ histIdle

\* What a directory modification of entry f does to a running scan and to
\* what a running list handler has seen of f.
touched(c, f, added) ==
    [c EXCEPT !.modified = (c.pc = "scan") \/ @,
              !.todo = IF c.pc = "scan" /\ added /\ sync_keeps(f) /\ f \notin c.files
                       THEN @ \cup {f} ELSE @,
              !.must = @ \ {f},
              !.present = @ \ {f},
              !.absent = @ \ {f}]

\* The environment puts a file into the media directory.
AddFile ==
    /\ changes < MaxChanges
    /\ \E f \in Files \ dir :
         /\ dir' = dir \cup {f}
         /\ sy' = [t \in Threads |-> touched(sy[t], f, TRUE)]
    /\ dir_mtime_v' = clock
    /\ changes' = changes + 1
    /\ ev' = ev0
    /\ UNCHANGED <<clock, videos, watch, faults>>
    /\ authIdle /\ histIdle

\* The environment removes a file from the media directory.
RemoveFile ==
    /\ changes < MaxChanges
    /\ \E f \in dir :
         /\ dir' = dir \ {f}
         /\ sy' = [t \in Threads |-> touched(sy[t], f, FALSE)]
    /\ dir_mtime_v' = clock
    /\ changes' = changes + 1
    /\ ev' = ev0
    /\ UNCHANGED <<clock, videos, watch, faults>>
    /\ authIdle /\ histIdle

\* A second passes.
TickCatalog ==
    /\ clock < MaxClock
    /\ clock' = clock + 1
    /\ ev' = ev0
    /\ UNCHANGED <<dir, dir_mtime_v, videos, sy, watch, changes, faults>>
    /\ authIdle /\ histIdle

AuthIdleInit ==
    /\ now = 0 /\ users = {} /\ sessions = {} /\ wk = <<>>
    /\ issued = {} /\ revoked = {} /\ rejected = {} /\ create_ok = <<>>
    /\ out = <<>>

\* State after video_initialize: the first sync has run alone and the
\* watcher has taken the directory's mtime.
InitCatalog ==
    /\ dir = { <<"a", "_", "1", ".", "m", "p", "4">>,
               <<".", "c", ".", "m", "p", "4">>,
               <<"d", ".", "t", "x", "t">> }
    /\ clock = 1
    /\ dir_mtime_v = 1
    /\ videos = sync_alone({}, {e \in dir : sync_keeps(e)}, {})
    /\ sy = [t \in Threads |-> sy0]
    /\ watch = [last_mtime |-> 1]
    /\ changes = 0 /\ faults = 0
    /\ ev = ev0
    /\ AuthIdleInit /\ HistoryIdleInit /\ ExtIdleInit

NextCatalog ==
    \/ \E w \in Workers : ListStart(w, BOOLEAN)
    \/ WatchCheck
    \/ \E t \in Threads : ReadEntry(t)
    \/ \E t \in Threads : Prune(t)
    \/ WatchUpdate
    \/ \E w \in Workers : Query(w)
    \/ AddFile
    \/ RemoveFile
    \/ TickCatalog

SpecCatalog == InitCatalog /\ [][NextCatalog]_vars

\* C7: when sync_media_directory returns 0 and the directory was not
\* modified during the call, the filenames of the videos table are the
\* non-hidden .mp4 entries of the directory, one row for each.
C7_SyncMatchesDirectory ==
    ev.kind = "sync_return" /\ ev.result = 0 /\ ~ev.modified
        => /\ {r.filename : r \in videos} = {e \in dir : sync_keeps(e)}
           /\ \A r1, r2 \in videos : r1.filename = r2.filename => r1 = r2

\* With no store statement failed, a call that saw an unmodified directory
\* returns 0 while the table lacks the row of a file that is in the directory.
C7_Witness ==
    /\ faults = 0
    /\ ev.kind = "sync_return" /\ ev.result = 0 /\ ~ev.modified
    /\ \E e \in dir : sync_keeps(e) /\ e \notin {r.filename : r \in videos}

\* C8: the rows an authenticated list request ranges over include every
\* .mp4 file that was in the directory from the start of the handler to its
\* response, and no file that was absent all that time.
C8_ListReflectsDirectory ==
    ev.kind = "list" /\ ev.status = 200
        => /\ ev.present \subseteq ev.rows
           /\ ev.rows \cap ev.absent = {}

\* With no store statement failed, a list request answers 200 from rows
\* that lack a file that was in the directory all through the handler.
C8_Witness ==
    /\ faults = 0
    /\ ev.kind = "list" /\ ev.status = 200
    /\ ev.present \ ev.rows # {}

(***************************************************************************)
(* Watch history: the watch_history table and history_handle_update.       *)
(***************************************************************************)
KnownDuration == 10    \* the duration, in seconds, of the video that has one

UserIds   == {1, 2}
VideoIds  == {0, 1, 2, 3}         \* :id values; 0 is what parse_int rejects
Positions == {-1, 3, 7}           \* "position" values of the request body
Bodies    == {"missing", "invalid", "position"}

\* An insert that adds a row whatever the table holds.
db_update_watch_history_insert(tbl, user_id, video_id, position_seconds) ==
    tbl \cup {[user_id |-> user_id, video_id |-> video_id,
               position_seconds |-> position_seconds]}

\* db_update_watch_history: INSERT ... ON CONFLICT(user_id, video_id)
\* DO UPDATE SET position_seconds = excluded.position_seconds.
db_update_watch_history(tbl, user_id, video_id, position_seconds) ==
    {r \in tbl : ~(r.user_id = user_id /\ r.video_id = video_id)}
        \cup {[user_id |-> user_id, video_id |-> video_id,
               position_seconds |-> position_seconds]}

\* A history query without its WHERE w.user_id = ? clause.
history_rows_of_all_users(hist, tbl, user_id) ==
    {r \in hist : \E v \in tbl : v.id = r.video_id}

\* history_handle_get: SELECT ... FROM watch_history w JOIN videos v ON
\* v.id = w.video_id WHERE w.user_id = ?
history_rows(hist, tbl, user_id) ==
    {r \in hist : r.user_id = user_id /\ \E v \in tbl : v.id = r.video_id}

\* db_list_watch_history: SELECT video_id, position_seconds, updated_at FROM
\* watch_history WHERE user_id = ?, each row handed to the callback.
db_list_watch_history(hist, user_id) == {r \in hist : r.user_id = user_id}

\* append_video_row: resumeSeconds of the video id, from the resume_map
\* that collect_resume filled; 0 when the map has no entry for it.
resumeSeconds(map, id) ==
    IF \E r \in map : r.video_id = id
    THEN (CHOOSE r \in map : r.video_id = id).position_seconds
    ELSE 0

\* video_handle_list: the id and resumeSeconds of each row of the first page.
video_rows(hist, tbl, user_id) ==
    LET map  == db_list_watch_history(hist, user_id)
        page == db_query_videos(tbl, NoQuery, VIDEO_DEFAULT_LIMIT, 0).rows
    IN  {[id |-> page[i].id, resumeSeconds |-> resumeSeconds(map, page[i].id)] :
            i \in DOMAIN page}

\* parse_int of the :id parameter; the handler answers 400 when it is <= 0.
parse_int(id) == IF id < 0 THEN -1 ELSE id

(***************************************************************************)
(* SpecHistory: workers serving POST /api/history/:id.  The videos table   *)
(* is the one a synchronization left, with one row whose duration column   *)
(* has been filled in; no synchronization runs meanwhile.                  *)
(***************************************************************************)
hw0 == [pc |-> "idle", user_id |-> 0, video_id |-> 0, position |-> 0, raced |-> FALSE]

\* The response of the last step; for a 200 also the request it answers,
\* whether another update of the same pair was in flight with it, and the
\* positions stored for the pair before its statement.
hev0 ==
    [kind |-> "none", status |-> 0, user_id |-> 0, video_id |-> 0, position |-> 0,
     raced |-> FALSE, previous |-> {}, rows |-> {}]

hrespond(c, status) ==
    [hev0 EXCEPT !.kind = "update", !.status = status, !.user_id = c.user_id,
                 !.video_id = c.video_id, !.position = c.position, !.raced = c.raced]

stored(u, v) == {r.position_seconds : r \in {x \in watch_history :
                                              x.user_id = u /\ x.video_id = v}}

catIdle == UNCHANGED <<catVars, extVars>>

\* history_handle_get: the session check, then one SELECT joining
\* watch_history with videos for ctx->user_id under the store mutex; the
\* rows listed, or 500 when the statement fails.  A holds the values
\* ctx->authenticated can have.
HistoryGet(w, A) ==
    /\ hw[w].pc = "idle"
    /\ \E authenticated \in A :
         IF ~authenticated
         THEN hev' = [hrespond(hw0, 401) EXCEPT !.kind = "get"]
         ELSE \E u \in UserIds, ok \in BOOLEAN :
           hev' = IF ~ok
                  THEN [hrespond(hw0, 500) EXCEPT !.kind = "get", !.user_id = u]
                  ELSE [hrespond(hw0, 200) EXCEPT
                          !.kind = "get", !.user_id = u,
                          !.rows = history_rows(watch_history, videos, u)]
    /\ UNCHANGED <<watch_history, hw, commits>>
    /\ authIdle /\ catIdle

\* history_handle_update up to db_update_watch_history: the session check,
\* parse_int, db_get_video_by_id, and the body's position.
HistoryCheck(w, A) ==
    /\ hw[w].pc = "idle"
    /\ \E authenticated \in A :
        IF ~authenticated
        THEN hev' = hrespond(hw0, 401) /\ UNCHANGED hw
        ELSE
        \E u \in UserIds, id \in VideoIds, body \in Bodies, p \in Positions :
         LET c == [hw0 EXCEPT !.user_id = u, !.video_id = parse_int(id), !.position = p]
             others == {x \in Workers \ {w} :
                          /\ hw[x].pc = "update"
                          /\ hw[x].user_id = u /\ hw[x].video_id = parse_int(id)}
         IN  IF parse_int(id) <= 0
             THEN hev' = hrespond(hw0, 400) /\ UNCHANGED hw
             ELSE IF db_get_video_by_id(videos, parse_int(id)).rc # 0
             THEN hev' = hrespond(hw0, 404) /\ UNCHANGED hw
             ELSE IF body # "position" \/ p < 0
             THEN hev' = hrespond(hw0, 400) /\ UNCHANGED hw
             ELSE /\ hev' = hev0
                  /\ hw' = [x \in Workers |->
                              IF x = w THEN [c EXCEPT !.pc = "update",
                                                      !.raced = others # {}]
                              ELSE IF x \in others THEN [hw[x] EXCEPT !.raced = TRUE]
                              ELSE hw[x]]
    /\ UNCHANGED <<watch_history, commits>>
    /\ authIdle /\ catIdle

\* history_handle_update: db_update_watch_history(user, video, position)
\* and the 200; 500 when the statement fails, as it does when the foreign
\* key finds no video of that id.
HistoryUpdate(w) ==
    /\ hw[w].pc = "update"
    /\ LET c == hw[w]
           k == <<c.user_id, c.video_id>>
       IN  \E ok \in BOOLEAN :
                IF ok /\ references_video(videos, c.video_id)
                THEN /\ watch_history' = db_update_watch_history(
                                             watch_history, c.user_id, c.video_id, c.position)
                     /\ commits' = [commits EXCEPT ![k] = {c.position}]
                     /\ hev' = [hrespond(c, 200) EXCEPT
                                  !.previous = stored(c.user_id, c.video_id)]
                ELSE /\ hev' = hrespond(c, 500)
                     /\ UNCHANGED <<watch_history, commits>>
    /\ hw' = [hw EXCEPT ![w] = hw0]
    /\ authIdle /\ catIdle

CatalogHistoryInit ==
    /\ dir = { <<"a", "_", "1", ".", "m", "p", "4">>, <<"b", ".", "M", "P", "4">> }
    /\ clock = 1 /\ dir_mtime_v = 1
    /\ videos = { IF r.id = 1 THEN [r EXCEPT !.duration_seconds = KnownDuration] ELSE r :
                    r \in sync_alone({}, {e \in dir : sync_keeps(e)}, {}) }
    /\ sy = <<>> /\ watch = [last_mtime |-> 1]
    /\ changes = 0 /\ faults = 0 /\ ev = <<>>

InitHistory ==
    /\ AuthIdleInit /\ CatalogHistoryInit /\ ExtIdleInit
    /\ watch_history = {}
    /\ hw = [w \in Workers |-> hw0]
    /\ commits = [k \in UserIds \X {r.id : r \in videos} |-> {}]
    /\ hev = hev0

NextHistory ==
    \/ \E w \in Workers : HistoryCheck(w, BOOLEAN)
    \/ \E w \in Workers : HistoryGet(w, BOOLEAN)
    \/ \E w \in Workers : HistoryUpdate(w)

SpecHistory == InitHistory /\ [][NextHistory]_vars

C10_LastWriterWins ==
    /\ \A r1, r2 \in watch_history :
         r1.user_id = r2.user_id /\ r1.video_id = r2.video_id => r1 = r2
    /\ \A k \in DOMAIN commits : stored(k[1], k[2]) = commits[k]
    /\ hev.kind = "update" /\ hev.status = 200
         => stored(hev.user_id, hev.video_id) = {hev.position}

\* Two updates of one (user, video) with different positions were in flight
\* together and both have committed.
C10_Witness ==
    /\ hev.kind = "update" /\ hev.status = 200 /\ hev.raced
    /\ hev.previous # {} /\ hev.previous # {hev.position}
    /\ stored(hev.user_id, hev.video_id) = {hev.position}


(***************************************************************************)
(* Handlers that serve one request without sharing state with another:     *)
(* range streaming, list paging, static assets.  A Range header is the     *)
(* character string the client sent; strtoll reads it as the C library     *)
(* does.                                                                   *)
(***************************************************************************)
MaxSize == 3        \* file sizes 0..MaxSize bytes
MaxBody == 3        \* characters after the six-character unit prefix

bytes_prefix == <<"b", "y", "t", "e", "s", "=">>
NoRange == <<"absent">>     \* http_get_header returned NULL
RangeHeaders ==
    LET chars == {"0", "1", "2", "5", "-", "x"}
        bodies == UNION { [1..n -> chars] : n \in 0..MaxBody }
    IN  { p \o b : p \in {bytes_prefix, <<"i", "t", "e", "m", "s", "=">>},
                   b \in bodies }

\* strtoll(s, NULL, 10): an optional sign, then the longest run of digits;
\* 0 when there is no digit.  Values here stay far below LLONG_MAX.
strtoll(s) ==
    LET value(c) ==
            CASE c = "0" -> 0 [] c = "1" -> 1 [] c = "2" -> 2 [] c = "3" -> 3
              [] c = "4" -> 4 [] c = "5" -> 5 [] c = "6" -> 6 [] c = "7" -> 7
              [] c = "8" -> 8 [] c = "9" -> 9 [] OTHER -> -1
        RECURSIVE digits(_, _)
        digits(t, acc) ==
            IF t = <<>> \/ value(Head(t)) < 0 THEN acc
            ELSE digits(Tail(t), 10 * acc + value(Head(t)))
    IN  IF s # <<>> /\ Head(s) = "-" THEN 0 - digits(Tail(s), 0)
        ELSE IF s # <<>> /\ Head(s) = "+" THEN digits(Tail(s), 0)
        ELSE digits(s, 0)

\* strchr(s, c): index of the first c in s, 0 for NULL.
strchr(s, c) ==
    IF \E i \in 1..Len(s) : s[i] = c
    THEN CHOOSE i \in 1..Len(s) : s[i] = c /\ \A j \in 1..(i - 1) : s[j] # c
    ELSE 0

\* parse_range_header without the clamp of the end position.
parse_range_header_unclamped(header, file_size) ==
    LET fail  == [rc |-> -1, start |-> 0, end |-> 0]
        range == SubSeq(header, 7, Len(header))
        dash  == strchr(range, "-")
        after == SubSeq(range, dash + 1, Len(range))
    IN  IF Len(header) < 6 \/ SubSeq(header, 1, 6) # bytes_prefix THEN fail
        ELSE IF dash = 0 THEN fail
        ELSE IF dash = 1
        THEN IF strtoll(after) <= 0 THEN fail
             ELSE [rc |-> 0, start |-> file_size - strtoll(after),
                   end |-> file_size - 1]
        ELSE IF strtoll(range) < 0 \/ strtoll(range) >= file_size THEN fail
        ELSE IF after # <<>>
        THEN IF strtoll(after) < strtoll(range) THEN fail
             ELSE [rc |-> 0, start |-> strtoll(range), end |-> strtoll(after)]
        ELSE [rc |-> 0, start |-> strtoll(range), end |-> file_size - 1]

\* parse_range_header(header, file_size, &start, &end): rc 0 with the range,
\* or rc -1.
parse_range_header(header, file_size) ==
    LET fail  == [rc |-> -1, start |-> 0, end |-> 0]
        range == SubSeq(header, 7, Len(header))
        dash  == strchr(range, "-")
        after == SubSeq(range, dash + 1, Len(range))
    IN  IF Len(header) < 6 \/ SubSeq(header, 1, 6) # bytes_prefix THEN fail
        ELSE IF dash = 0 THEN fail
        ELSE IF dash = 1
        THEN \* suffix range
             LET suffix  == strtoll(after)
                 clamped == IF suffix > file_size THEN file_size ELSE suffix
             IN  IF suffix <= 0 THEN fail
                 ELSE [rc |-> 0, start |-> file_size - clamped,
                       end |-> file_size - 1]
        ELSE LET start == strtoll(range)
             IN  IF start < 0 \/ start >= file_size THEN fail
                 ELSE IF after # <<>>
                 THEN LET end == strtoll(after)
                      IN  IF end < start THEN fail
                          ELSE [rc |-> 0, start |-> start,
                                end |-> IF end >= file_size
                                        THEN file_size - 1 ELSE end]
                 ELSE [rc |-> 0, start |-> start, end |-> file_size - 1]

\* http_send_file_response(fd, status, .., path, offset, length, ..): stats
\* the file again; rc -1 (nothing written) when the offset lies beyond it,
\* else the Content-Length header it writes and the bytes it sends.
http_send_file_response(status, offset, length, st_size) ==
    IF offset > st_size THEN [rc |-> -1, status |-> 0, content_length |-> 0]
    ELSE [rc |-> 0, status |-> status,
          content_length |-> IF length = 0 \/ length > st_size - offset
                             THEN st_size - offset ELSE length]

\* video_handle_stream after the route matched.  video is what the id and
\* the file system resolve to; send_size is st_size at the second stat.
video_handle_stream(rq) ==
    LET error(status) ==
            [status |-> status, ranged |-> FALSE, start |-> 0, end |-> 0,
             total |-> 0, content_length |-> 0]
    IN  IF ~rq.authenticated THEN error(401)
        ELSE IF rq.video = "bad_id" THEN error(400)
        ELSE IF rq.video = "unknown" THEN error(404)
        ELSE IF rq.video = "no_file" THEN error(404)
        ELSE IF rq.range # NoRange
        THEN LET r == parse_range_header(rq.range, rq.file_size)
                 sent == http_send_file_response(206, r.start,
                             r.end - r.start + 1, rq.send_size)
             IN  IF r.rc # 0 THEN error(416)
                 ELSE [status |-> sent.status, ranged |-> TRUE,
                       start |-> r.start, end |-> r.end,
                       total |-> rq.file_size,
                       content_length |-> sent.content_length]
        ELSE LET sent == http_send_file_response(200, 0, 0, rq.send_size)
             IN  [error(sent.status) EXCEPT
                     !.content_length = sent.content_length]

\* Decimal numeral of n: "%d" in a response, copied by the client into
\* its next request.
RECURSIVE numeral(_)
numeral(n) ==
    LET d == <<"0", "1", "2", "3", "4", "5", "6", "7", "8", "9">>
    IN  IF n < 10 THEN <<d[n + 1]>>
        ELSE numeral(n \div 10) \o <<d[(n % 10) + 1]>>

IntBits == 8        \* width of int in the model; long is wider

\* query_get_int(query, name, &value): query_get_param, strtol(buf, &end, 10)
\* with *end == '\0' required, then *value_out = (int)v.  An empty value
\* parses as 0.
NoParam == <<"absent">>
query_get_int(param) ==
    LET digits == {"0", "1", "2", "3", "4", "5", "6", "7", "8", "9"}
        unsigned == IF param # <<>> /\ Head(param) \in {"-", "+"}
                    THEN Tail(param) ELSE param
        half == 2 ^ (IntBits - 1)
    IN  IF param = NoParam THEN [rc |-> -1, value |-> 0]
        ELSE IF param = <<>> THEN [rc |-> 0, value |-> 0]
        ELSE IF unsigned # <<>> /\ \A i \in 1..Len(unsigned) : unsigned[i] \in digits
        THEN [rc |-> 0,
              value |-> ((strtoll(param) + half) % (2 * half)) - half]
        ELSE [rc |-> -1, value |-> 0]

\* video_handle_list after its sync_media_directory call: limit, cursor
\* and q, db_list_watch_history, db_query_videos on the table, the 200.
video_handle_list(rq) ==
    LET l == query_get_int(rq.limit)
        limit == IF l.rc # 0 \/ l.value < 1 THEN VIDEO_DEFAULT_LIMIT
                 ELSE IF l.value > VIDEO_MAX_LIMIT THEN VIDEO_MAX_LIMIT
                 ELSE l.value
        c == query_get_int(rq.cursor)
        cursor == IF c.rc # 0 \/ c.value < 0 THEN 0 ELSE c.value
        RECURSIVE trim_spaces(_)
        trim_spaces(t) ==
            IF t # <<>> /\ Head(t) = " " THEN trim_spaces(Tail(t))
            ELSE IF t # <<>> /\ t[Len(t)] = " "
            THEN trim_spaces(SubSeq(t, 1, Len(t) - 1))
            ELSE t
        has_query == rq.q # NoQuery /\ trim_spaces(rq.q) # <<>>
        page == db_query_videos(rq.table,
                                IF has_query THEN trim_spaces(rq.q) ELSE NoQuery,
                                limit, cursor)
        half == 2 ^ (IntBits - 1)
        error(status) ==
            [status |-> status, rows |-> <<>>, cursor |-> 0, limit |-> 0,
             nextCursor |-> 0, hasMore |-> FALSE]
    IN  IF ~rq.authenticated THEN error(401)
        ELSE IF ~rq.history_ok \/ page.rc # 0 THEN error(500)
        ELSE [status |-> 200,
              rows |-> [i \in DOMAIN page.rows |-> page.rows[i].id],
              cursor |-> cursor, limit |-> limit,
              nextCursor |-> ((cursor + Len(page.rows) + half) % (2 * half)) - half,
              hasMore |-> page.has_more]

\* A videos table of n rows; ids have gaps, as after prunes.
paged_table(n) ==
    {[id |-> i + (i \div 3),
      filename |-> <<"m">> \o numeral(i) \o <<".", "m", "p", "4">>,
      title |-> <<"m">> \o numeral(i),
      duration_seconds |-> 0] : i \in 1..n}

ListRequests ==
    [kind : {"list"}, authenticated : {TRUE}, history_ok : {TRUE},
     limit : {NoParam, <<>>, <<"x">>, <<"-", "3">>, <<"0">>, <<"1">>, <<"2">>,
              <<"1", "2">>, <<"5", "0">>, <<"5", "1">>, <<"1", "2", "9">>,
              <<"2", "5", "7">>, <<"1", "2", "x">>},
     cursor : {NoParam, <<"x">>, <<"-", "1">>, <<"0">>, <<"1">>, <<"2">>,
               <<"1", "3">>, <<"6", "0">>},
     q : {NoQuery, <<" ", " ">>, <<" ", "1">>, <<"M">>},
     table : {paged_table(n) : n \in {0, 3, 13, 52}},
     origin : {TRUE}, from0 : {FALSE}, acc : {<<>>}]
    \cup [kind : {"list"}, authenticated : BOOLEAN, history_ok : BOOLEAN,
          limit : {NoParam}, cursor : {NoParam}, q : {NoQuery},
          table : {paged_table(3)}, origin : {TRUE}, from0 : {FALSE},
          acc : {<<>>}]

\* One worker serves the list request.
ListPage ==
    /\ res = <<>> /\ req.kind = "list"
    /\ res' = video_handle_list(req)
    /\ UNCHANGED <<req, authVars, catVars, histVars, thumbVars, lifeVars, storeVars>>

\* The client asks for the next page: cursor = nextCursor of the answer.
\* acc collects the rows of the pages so far; from0 tells whether the first
\* page was asked from cursor 0.
FollowNext ==
    /\ res # <<>> /\ req.kind = "list"
    /\ res.status = 200 /\ res.hasMore
    /\ req' = [req EXCEPT !.cursor = numeral(res.nextCursor),
                          !.origin = FALSE,
                          !.from0 = IF req.origin THEN res.cursor = 0 ELSE @,
                          !.acc = @ \o res.rows]
    /\ res' = <<>>
    /\ UNCHANGED <<authVars, catVars, histVars, thumbVars, lifeVars, storeVars>>

StreamRequests ==
    [kind : {"stream"}, authenticated : BOOLEAN, video : {"file"},
     range : RangeHeaders \cup {NoRange},
     file_size : 0..MaxSize, send_size : 0..MaxSize]
    \cup [kind : {"stream"}, authenticated : BOOLEAN,
          video : {"bad_id", "unknown", "no_file"},
          range : {NoRange, bytes_prefix \o <<"0", "-">>},
          file_size : {0}, send_size : {0}]

\* One worker serves the stream request.
Stream ==
    /\ res = <<>> /\ req.kind = "stream"
    /\ res' = video_handle_stream(req)
    /\ UNCHANGED <<req, authVars, catVars, histVars, thumbVars, lifeVars, storeVars>>

(***************************************************************************)
(* Static assets (main.c).  A path is a sequence of characters; the file   *)
(* system is a tree of names below the working directory, which holds the  *)
(* static directory "s" and, beside it, a file the server must not serve.  *)
(***************************************************************************)
MaxPath == 4        \* characters of a request path

\* strstr(haystack, needle) != NULL.
strstr(haystack, needle) ==
    \E i \in 1..(Len(haystack) + 1 - Len(needle)) :
        SubSeq(haystack, i, i + Len(needle) - 1) = needle

\* A test that looks for ".." at the start of the path only.
is_safe_path_at_start(path) ==
    ~(Len(path) >= 2 /\ SubSeq(path, 1, 2) = <<".", ".">>)
\* is_safe_path: 0 when strstr(path, "..") finds something.
is_safe_path(path) == ~strstr(path, <<".", ".">>)

\* The files (dir FALSE) and directories below the working directory;
\* index.html is there or not.
static_tree(index) ==
    LET index_html == <<"i", "n", "d", "e", "x", ".", "h", "t", "m", "l">>
    IN  {[at |-> <<>>, dir |-> TRUE],
         [at |-> <<<<"s">>>>, dir |-> TRUE],
         [at |-> <<<<"s">>, <<"a">>>>, dir |-> FALSE],
         [at |-> <<<<"s">>, <<"d">>>>, dir |-> TRUE],
         [at |-> <<<<"s">>, <<"d">>, <<"a">>>>, dir |-> FALSE],
         [at |-> <<<<"a">>>>, dir |-> FALSE]}
        \cup (IF index THEN {[at |-> <<<<"s">>, index_html>>, dir |-> FALSE]}
              ELSE {})

\* stat(full_path, &st): path resolution, one component after the other.
\* rc -1 for ENOENT and ENOTDIR, else the node that was reached.
stat(full_path, tree) ==
    LET RECURSIVE components(_, _)
        components(rest, name) ==
            IF rest = <<>> THEN <<name>>
            ELSE IF Head(rest) = "/" THEN <<name>> \o components(Tail(rest), <<>>)
            ELSE components(Tail(rest), Append(name, Head(rest)))
        node(at) == CHOOSE n \in tree : n.at = at
        RECURSIVE walk(_, _)
        walk(at, names) ==
            IF names = <<>> THEN [rc |-> 0, at |-> at, dir |-> node(at).dir]
            ELSE IF ~node(at).dir THEN [rc |-> -1, at |-> <<>>, dir |-> FALSE]
            ELSE IF Head(names) \in {<<>>, <<".">>} THEN walk(at, Tail(names))
            ELSE IF Head(names) = <<".", ".">>
            THEN walk(IF at = <<>> THEN at ELSE SubSeq(at, 1, Len(at) - 1),
                      Tail(names))
            ELSE IF \E n \in tree : n.at = Append(at, Head(names))
            THEN walk(Append(at, Head(names)), Tail(names))
            ELSE [rc |-> -1, at |-> <<>>, dir |-> FALSE]
    IN  walk(<<>>, components(full_path, <<>>))

\* serve_static_file.  fs_calls counts the stat and open calls made; file
\* is the node whose content the 200 carries.  vanishes: the file is
\* removed before http_send_file_response stats it again, which then
\* returns -1 with nothing written (status 0).
serve_static_file(rq) ==
    LET path == rq.path
        static_dir == <<"s">>
        answer(status, calls, file) ==
            [status |-> status, fs_calls |-> calls, file |-> file]
        relative == IF path = <<"/">>
                    THEN <<"i", "n", "d", "e", "x", ".", "h", "t", "m", "l">>
                    ELSE IF Head(path) = "/" THEN Tail(path)
                    ELSE path
        full_path == static_dir \o <<"/">> \o relative
        st == stat(full_path, static_tree(rq.index))
    IN  IF path = <<>> THEN answer(404, 0, <<"none">>)
        ELSE IF ~is_safe_path(path) THEN answer(403, 0, <<"none">>)
        ELSE IF Len(full_path) >= 4096 THEN answer(500, 0, <<"none">>)
        ELSE IF st.rc # 0 \/ st.dir THEN answer(404, 1, <<"none">>)
        ELSE IF rq.vanishes THEN answer(0, 2, <<"none">>)
        ELSE answer(200, 3, st.at)

StaticRequests ==
    LET chars == {"/", ".", "a", "d"}
    IN  [kind : {"static"},
         path : UNION {[1..n -> chars] : n \in 0..MaxPath},
         index : BOOLEAN, vanishes : BOOLEAN]

\* handle_client: a path outside "/api/" goes to serve_static_file.
Static ==
    /\ res = <<>> /\ req.kind = "static"
    /\ ~(Len(req.path) >= 5
         /\ SubSeq(req.path, 1, 5) = <<"/", "a", "p", "i", "/">>)
    /\ res' = serve_static_file(req)
    /\ UNCHANGED <<req, authVars, catVars, histVars, thumbVars, lifeVars, storeVars>>

(***************************************************************************)
(* Router (router.c).  A path or a pattern is a sequence of pieces: "/"    *)
(* or a run of other characters written as one string; a piece that        *)
(* starts with ':' opens a parameter segment.                               *)
(***************************************************************************)
MaxPieces == 5      \* pieces of a request path

\* path_matches with segment_match: both strings are cut by
\* strtok_r(.., "/", ..) and compared token by token; params is
\* temp_ctx.params[0 .. param_count - 1] as the match leaves it.
path_matches(route_path, request_path) ==
    LET RECURSIVE strtok_r(_, _)
        strtok_r(rest, token) ==
            IF rest = <<>> THEN (IF token = <<>> THEN <<>> ELSE <<token>>)
            ELSE IF Head(rest) = "/"
            THEN (IF token = <<>> THEN <<>> ELSE <<token>>)
                     \o strtok_r(Tail(rest), <<>>)
            ELSE strtok_r(Tail(rest), Append(token, Head(rest)))
        key(piece) == CASE piece = ":id" -> "id" [] piece = ":a" -> "a"
                        [] piece = ":b" -> "b" [] OTHER -> piece
        RECURSIVE compare(_, _, _)
        compare(route_segs, path_segs, params) ==
            IF route_segs = <<>> /\ path_segs = <<>>
            THEN [rc |-> 1, params |-> params]
            ELSE IF route_segs = <<>> \/ path_segs = <<>>
            THEN [rc |-> 0, params |-> params]
            ELSE IF Head(route_segs)[1] \in {":id", ":a", ":b"}
            THEN IF Len(params) < 8
                 THEN compare(Tail(route_segs), Tail(path_segs),
                              Append(params,
                                     [key |-> <<key(Head(route_segs)[1])>>
                                                  \o Tail(Head(route_segs)),
                                      value |-> Head(path_segs)]))
                 ELSE [rc |-> 0, params |-> params]
            ELSE IF Head(route_segs) = Head(path_segs)
            THEN compare(Tail(route_segs), Tail(path_segs), params)
            ELSE [rc |-> 0, params |-> params]
    IN  compare(strtok_r(route_path, <<>>), strtok_r(request_path, <<>>), <<>>)

\* A router that keeps the bindings of the routes it tried before.
router_handle_keeps_params(routes, method, path) ==
    LET RECURSIVE loop(_, _)
        loop(i, params) ==
            IF i > Len(routes)
            THEN [handler |-> "none", params |-> <<>>, sent |-> <<404>>]
            ELSE LET m == path_matches(routes[i].path, path)
                 IN  IF routes[i].method = method /\ m.rc = 1
                     THEN [handler |-> routes[i].handler,
                           params |-> params \o m.params, sent |-> <<>>]
                     ELSE loop(i + 1, params \o m.params)
    IN  loop(1, <<>>)
\* router_handle: the first route whose method and path match gets *ctx =
\* temp_ctx and runs; after the table, one 404.  sent lists the responses
\* router_handle itself writes.
router_handle(routes, method, path) ==
    LET RECURSIVE loop(_)
        loop(i) ==
            IF i > Len(routes)
            THEN [handler |-> "none", params |-> <<>>, sent |-> <<404>>]
            ELSE LET m == path_matches(routes[i].path, path)
                 IN  IF routes[i].method = method /\ m.rc = 1
                     THEN [handler |-> routes[i].handler,
                           params |-> m.params, sent |-> <<>>]
                     ELSE loop(i + 1)
    IN  loop(1)

\* router_set_routes: tables whose routes overlap, in two orders.
RouteTables ==
    LET r(method, path, handler) ==
            [method |-> method, path |-> path, handler |-> handler]
        t == <<r("GET", <<"/", "videos">>, "list"),
               r("GET", <<"/", "videos", "/", ":id">>, "one"),
               r("GET", <<"/", "videos", "/", "7">>, "seven"),
               r("POST", <<"/", "videos", "/", ":id">>, "update"),
               r("GET", <<"/", ":a", "/", ":b">>, "any")>>
    IN  {t, [i \in 1..Len(t) |-> t[Len(t) + 1 - i]]}

RouteRequests ==
    [kind : {"route"}, method : {"GET", "POST", "PUT"},
     path : UNION {[1..n -> {"/", "videos", "7", "x"}] : n \in 0..MaxPieces},
     routes : RouteTables]

\* handle_client hands the request to router_handle.
Route ==
    /\ res = <<>> /\ req.kind = "route"
    /\ res' = router_handle(req.routes, req.method, req.path)
    /\ UNCHANGED <<req, authVars, catVars, histVars, thumbVars, lifeVars, storeVars>>

InitRequest ==
    /\ AuthIdleInit /\ CatalogIdleInit /\ HistoryIdleInit
    /\ ThumbIdleInit /\ LifeIdleInit /\ StoreIdleInit
    /\ req \in StreamRequests \cup ListRequests \cup StaticRequests
                \cup RouteRequests
    /\ res = <<>>

NextRequest ==
    \/ Stream
    \/ ListPage
    \/ FollowNext
    \/ Static
    \/ Route

SpecRequest == InitRequest /\ [][NextRequest]_vars

streamed == res # <<>> /\ req.kind = "stream"

\* C11: every 206 answer of the stream handler has 0 <= start <= end <
\* file_size, carries Content-Range "bytes start-end/file_size", and its
\* Content-Length equals end - start + 1, for every file size including 0.
C11_RangeWithinFile ==
    (streamed /\ res.status = 206) =>
        /\ 0 <= res.start /\ res.start <= res.end
        /\ res.end < req.file_size
        /\ res.ranged /\ res.total = req.file_size
        /\ res.content_length = res.end - res.start + 1

\* An empty file, unchanged during the request, asked for with a suffix
\* range, is answered 206 with end = -1.
C11_Witness ==
    /\ streamed /\ res.status = 206
    /\ req.file_size = 0 /\ req.send_size = 0
    /\ req.range = bytes_prefix \o <<"-", "5">>
    /\ res.start = 0 /\ res.end = -1 /\ res.content_length = 0

RangeNumbers == {0, 1, 2, 5, 10, 11, 12, 15, 20, 21, 22, 25, 50, 51, 52, 55}
smaller(a, b) == IF a < b THEN a ELSE b
answers206(start, end) ==
    /\ res.status = 206 /\ res.ranged
    /\ res.start = start /\ res.end = end

\* C12: for a non-empty file and a single-range header, "a-b" gives
\* (a, min(b, size-1)) when a < size and b >= a, "a-" gives (a, size-1)
\* when a < size, "-N" with N > 0 gives (size - min(N, size), size-1);
\* every other such header is answered 416; without Range the answer is
\* 200 with the whole file.
C12_RangeReference ==
    (/\ streamed /\ req.authenticated /\ req.video = "file"
     /\ req.file_size > 0 /\ req.send_size = req.file_size) =>
        LET size == req.file_size
        IN  /\ \A a \in RangeNumbers, b \in RangeNumbers :
                 req.range = bytes_prefix \o numeral(a) \o <<"-">> \o numeral(b)
                 => IF a < size /\ b >= a
                    THEN answers206(a, smaller(b, size - 1))
                    ELSE res.status = 416
            /\ \A a \in RangeNumbers :
                 req.range = bytes_prefix \o numeral(a) \o <<"-">>
                 => IF a < size THEN answers206(a, size - 1)
                    ELSE res.status = 416
            /\ \A n \in RangeNumbers :
                 req.range = bytes_prefix \o <<"-">> \o numeral(n)
                 => IF n > 0
                    THEN answers206(size - smaller(n, size), size - 1)
                    ELSE res.status = 416
            /\ req.range = NoRange
                 => /\ res.status = 200 /\ ~res.ranged
                    /\ res.content_length = size

\* "bytes=1-5" on a three-byte file is served as 1-2.
C12_Witness ==
    /\ streamed /\ req.authenticated /\ req.video = "file"
    /\ req.file_size = 3 /\ req.send_size = 3
    /\ req.range = bytes_prefix \o <<"1", "-", "5">>
    /\ res.status = 206 /\ res.start = 1 /\ res.end = 2
    /\ res.content_length = 2

(***************************************************************************)
(* Thumbnail cache: video_handle_thumbnail, ffmpeg_ensure_thumbnail and    *)
(* the encoder child, for one video id.  The encoder writes the cache      *)
(* path itself (ffmpeg -y <dst>): opening it truncates the file.  Workers  *)
(* interleave between system calls; modification times are in seconds.     *)
(***************************************************************************)
MaxThumbClock == 2      \* the clock runs 1..MaxThumbClock
MaxUpdates == 1         \* source-file updates

no_file == [exists |-> FALSE, mtime |-> 0, complete |-> FALSE]
\* seen: what the stat of the cache path found when the file was judged
\* fresh: no hit, a whole file, or one an encoder has open.
tw0  == [pc |-> "idle", trunc |-> FALSE, lost |-> FALSE, seen |-> "none"]
tev0 == [kind |-> "none", status |-> 0, opened |-> FALSE]

thumbIdle == UNCHANGED <<authVars, catVars, histVars, reqVars, lifeVars, storeVars>>

\* router_send_json_error / the header of http_send_file_response.
tanswer(w, kind, status, opened) ==
    /\ tev' = [kind |-> kind, status |-> status, opened |-> opened]
    /\ tw' = [tw EXCEPT ![w] = tw0]

\* video_handle_thumbnail up to the call of ffmpeg_ensure_thumbnail.
ThumbnailStart(w, A) ==
    /\ tw[w].pc = "idle"
    /\ \E authenticated \in A, video \in {"bad_id", "unknown", "known"} :
         IF ~authenticated THEN tanswer(w, "error", 401, FALSE)
         ELSE IF video = "bad_id" THEN tanswer(w, "error", 400, FALSE)
         ELSE IF video = "unknown" THEN tanswer(w, "error", 404, FALSE)
         ELSE /\ tw' = [tw EXCEPT ![w].pc = "ensure"]
              /\ tev' = tev0
    /\ UNCHANGED tfs
    /\ thumbIdle

\* ffmpeg_ensure_thumbnail: stat(video_path), stat(thumb_path) and the
\* freshness test.
EnsureStat(w) ==
    /\ tw[w].pc = "ensure"
    /\ tw' = [tw EXCEPT ![w] =
                IF tfs.thumb.exists /\ tfs.thumb.mtime >= tfs.src_mtime
                THEN [@ EXCEPT !.pc = "send",
                               !.seen = IF tfs.thumb.complete THEN "whole"
                                        ELSE "partial"]
                ELSE [@ EXCEPT !.pc = "fork"]]
    /\ tev' = tev0
    /\ UNCHANGED tfs
    /\ thumbIdle

\* The encoder child opens the destination: the file is created or
\* truncated.  Another encoder that has the same file open keeps writing
\* into it.
EncoderOpen(w) ==
    /\ tw[w].pc = "fork"
    /\ tfs' = [tfs EXCEPT !.thumb = [exists |-> TRUE, mtime |-> tfs.clock,
                                     complete |-> FALSE]]
    /\ tw' = [x \in Workers |->
                IF x = w THEN [tw0 EXCEPT !.pc = "encoding"]
                ELSE IF tw[x].pc = "encoding" /\ tfs.thumb.exists /\ ~tw[x].lost
                THEN [tw[x] EXCEPT !.trunc = TRUE]
                ELSE tw[x]]
    /\ tev' = tev0
    /\ thumbIdle

\* The encoder exits with status 0 and waitpid returns: ffmpeg_ensure_thumbnail
\* returns 0.  Its output is whole unless another encoder truncated the file
\* under it; it is nowhere if the path was unlinked under it.
EncoderExit(w) ==
    /\ tw[w].pc = "encoding"
    /\ \E whole \in BOOLEAN :
         /\ (~tw[w].trunc \/ tfs.thumb.complete) => whole
         /\ tfs' = IF tw[w].lost THEN tfs
                   ELSE [tfs EXCEPT !.thumb = [exists |-> TRUE,
                                               mtime |-> tfs.clock,
                                               complete |-> whole]]
    /\ tw' = [tw EXCEPT ![w] = [tw0 EXCEPT !.pc = "send"]]
    /\ tev' = tev0
    /\ thumbIdle

\* fork() fails, or the encoder exits non-zero (before or after it opened
\* the destination) and the parent unlinks thumb_path; the handler answers
\* 500 "Thumbnail error".
EncoderFail(w) ==
    /\ \/ /\ tw[w].pc = "fork"
          /\ UNCHANGED tfs
          /\ tanswer(w, "error", 500, FALSE)
       \/ /\ tw[w].pc \in {"fork", "encoding"}
          /\ tfs' = [tfs EXCEPT !.thumb = no_file]
          /\ tev' = [kind |-> "error", status |-> 500, opened |-> FALSE]
          /\ tw' = [x \in Workers |->
                      IF x = w THEN tw0
                      ELSE IF tw[x].pc = "encoding"
                      THEN [tw[x] EXCEPT !.lost = TRUE]
                      ELSE tw[x]]
    /\ thumbIdle

\* http_send_file_response: stat(thumb_path) and the response header; no
\* response at all when the stat fails.
SendHeader(w) ==
    /\ tw[w].pc = "send"
    /\ IF tfs.thumb.exists
       THEN /\ tev' = [kind |-> "header", status |-> 200, opened |-> FALSE]
            /\ tw' = [tw EXCEPT ![w].pc = "body"]
       ELSE tanswer(w, "dropped", 0, FALSE)
    /\ UNCHANGED tfs
    /\ thumbIdle

\* http_send_file_response: open(thumb_path) and the body.
SendBody(w) ==
    /\ tw[w].pc = "body"
    /\ tanswer(w, "body", 200, tfs.thumb.exists)
    /\ UNCHANGED tfs
    /\ thumbIdle

\* The source file of the video is replaced or rewritten.
SourceUpdate ==
    /\ tfs.updates < MaxUpdates
    /\ tfs' = [tfs EXCEPT !.src_mtime = tfs.clock, !.updates = @ + 1]
    /\ tev' = tev0
    /\ UNCHANGED tw
    /\ thumbIdle

TickThumb ==
    /\ tfs.clock < MaxThumbClock
    /\ tfs' = [tfs EXCEPT !.clock = @ + 1]
    /\ tev' = tev0
    /\ UNCHANGED tw
    /\ thumbIdle

\* The cache holds nothing, or a whole file of an earlier run.
InitThumb ==
    /\ AuthIdleInit /\ CatalogIdleInit /\ HistoryIdleInit /\ LifeIdleInit /\ StoreIdleInit
    /\ req = <<>> /\ res = <<>>
    /\ \E m \in 0..1, t \in {no_file} \cup
                  [exists : {TRUE}, mtime : 0..1, complete : {TRUE}] :
         tfs = [clock |-> 1, src_mtime |-> m, thumb |-> t, updates |-> 0]
    /\ tw = [w \in Workers |-> tw0]
    /\ tev = tev0

NextThumb ==
    \/ \E w \in Workers : ThumbnailStart(w, BOOLEAN)
    \/ \E w \in Workers : EnsureStat(w)
    \/ \E w \in Workers : EncoderOpen(w)
    \/ \E w \in Workers : EncoderExit(w)
    \/ \E w \in Workers : EncoderFail(w)
    \/ \E w \in Workers : SendHeader(w)
    \/ \E w \in Workers : SendBody(w)
    \/ SourceUpdate
    \/ TickThumb

SpecThumb == InitThumb /\ [][NextThumb]_vars

\* C13: when a thumbnail request is answered 200, the cache file exists and
\* its modification time is >= that of the source file, under any
\* interleaving with source updates and other thumbnail requests.
C13_FreshWhenServed ==
    (tev.kind = "header" /\ tev.status = 200) =>
        /\ tfs.thumb.exists
        /\ tfs.thumb.mtime >= tfs.src_mtime

\* A 200 is being answered from a cache file older than the source.
C13_Witness ==
    /\ tev.kind = "header" /\ tev.status = 200
    /\ tfs.thumb.exists /\ tfs.thumb.mtime < tfs.src_mtime

\* C14: with two concurrent misses for one id, each request answers 200
\* with a completely written cache file or fails; once both have finished
\* the cache path holds a complete file or none; an encoder failure of one
\* request never removes or truncates the file the other serves with 200.
C14_CompleteOrFail ==
    /\ (tev.kind = "header" /\ tev.status = 200) => tfs.thumb.complete
    /\ tev.kind = "body" => (tev.opened /\ tfs.thumb.complete)
    /\ (\A w \in Workers : tw[w].pc = "idle") =>
           (~tfs.thumb.exists \/ tfs.thumb.complete)

\* The 200 header is out and the file is gone when the body is to be read.
C14_Witness ==
    /\ tev.kind = "body" /\ tev.status = 200 /\ ~tev.opened
    /\ ~tfs.thumb.exists

\* C37: a request that arrives while another request's encoder is still
\* writing the cache file never answers 200 with the unfinished file: a
\* request that answers 200 without encoding took for a hit only a file
\* that a finished encoder run had produced.
C37_HitOnlyWhenFinished ==
    (tev.kind = "header" /\ tev.status = 200) =>
        \A w \in Workers : tw[w].pc = "body" => tw[w].seen # "partial"

\* The second request judged the file the first encoder has open fresh and
\* has sent its 200 header; the encoder is still running.
C37_Witness ==
    /\ tev.kind = "header" /\ tev.status = 200
    /\ ~tfs.thumb.complete /\ tfs.updates = 0
    /\ \E w, x \in Workers :
         /\ tw[w].pc = "body" /\ tw[w].seen = "partial"
         /\ tw[x].pc = "encoding" /\ ~tw[x].trunc /\ ~tw[x].lost

(***************************************************************************)
(* Requests that carry no valid session, on every endpoint that requires   *)
(* one.  auth_authenticate_request runs before the handler; the only       *)
(* session in the store has expired.                                       *)
(***************************************************************************)
InitGuard ==
    /\ now = 1
    /\ users = ensure_default_users({}, 1, [n \in defaultNames |-> "s1"])
    /\ sessions = {[token |-> 1, user_id |-> 1, expires_at |-> 1]}
    /\ issued = sessions /\ revoked = {} /\ rejected = {}
    /\ wk = [w \in Workers |-> ctx0]
    /\ create_ok = [n \in RegisterNames |-> 0]
    /\ out = out0
    /\ dir = { <<"a", "_", "1", ".", "m", "p", "4">>, <<"b", ".", "M", "P", "4">> }
    /\ clock = 1 /\ dir_mtime_v = 1
    /\ videos = sync_alone({}, {<<"a", "_", "1", ".", "m", "p", "4">>}, {})
    /\ sy = [t \in Threads |-> sy0]
    /\ watch = [last_mtime |-> 1]
    /\ changes = 0 /\ faults = 0 /\ ev = ev0
    /\ watch_history = {[user_id |-> 1, video_id |-> 1, position_seconds |-> 3]}
    /\ hw = [w \in Workers |-> hw0]
    /\ commits = [k \in UserIds \X {r.id : r \in videos} |-> {}]
    /\ hev = hev0
    /\ \E t \in {no_file, [exists |-> TRUE, mtime |-> 1, complete |-> TRUE]} :
         tfs = [clock |-> 1, src_mtime |-> 1, thumb |-> t, updates |-> 0]
    /\ tw = [w \in Workers |-> tw0]
    /\ tev = tev0
    /\ LifeIdleInit /\ StoreIdleInit
    /\ req \in {r \in StreamRequests :
                  /\ ~r.authenticated /\ r.video = "file"
                  /\ r.file_size = 1 /\ r.send_size = 1
                  /\ r.range \in {NoRange, bytes_prefix \o <<"0", "-">>}}
    /\ res = <<>>

NextGuard ==
    \/ \E w \in Workers : Accept(w, Cookies)
    \/ \E w \in Workers : AuthGetSession(w)
    \/ \E w \in Workers : AuthCheckExpiry(w)
    \/ \E w \in Workers : AuthDeleteExpired(w)
    \/ \E w \in Workers : Me(w)
    \/ \E w \in Workers : ListStart(w, {FALSE})
    \/ \E w \in Workers : HistoryGet(w, {FALSE})
    \/ \E w \in Workers : HistoryCheck(w, {FALSE})
    \/ \E w \in Workers : ThumbnailStart(w, {FALSE})
    \/ Stream

SpecGuard == InitGuard /\ [][NextGuard]_vars

C15_Answers401 ==
    /\ out.kind = "me" => out.status = 401
    /\ ev.kind # "none" => ev.status = 401
    /\ hev.kind # "none" => hev.status = 401
    /\ tev.kind # "none" => tev.status = 401
    /\ res # <<>> => res.status = 401
C15_Frame ==
    /\ UNCHANGED <<users, videos, watch_history, tfs>>
    /\ UNCHANGED sy
    /\ \A w \in Workers : tw'[w].pc = "idle"

\* C15: a request without a valid session to an auth-required endpoint is
\* answered 401 and leaves the users, videos and watch_history tables and
\* the thumbnail cache unchanged; it starts no catalog synchronisation and
\* no encoder.
C15_UnauthorizedFrame == []C15_Answers401 /\ [][C15_Frame]_vars

\* All six endpoints have answered 401; the expired session row is gone.
C15_Witness ==
    /\ out.kind = "me" /\ out.status = 401
    /\ ev.kind = "list" /\ ev.status = 401
    /\ hev.kind \in {"get", "update"} /\ hev.status = 401
    /\ tev.status = 401
    /\ res # <<>> /\ res.status = 401
    /\ sessions = {}

MaxGiven == 300     \* largest number written into a limit or cursor parameter
listed == res # <<>> /\ req.kind = "list" /\ res.status = 200

\* The integer a parameter value denotes, if it is a decimal numeral.
given(param) ==
    IF \E n \in 0..MaxGiven : param = numeral(n)
    THEN [ok |-> TRUE, n |-> CHOOSE n \in 0..MaxGiven : param = numeral(n)]
    ELSE IF \E n \in 1..MaxGiven : param = <<"-">> \o numeral(n)
    THEN [ok |-> TRUE,
          n |-> 0 - (CHOOSE n \in 1..MaxGiven : param = <<"-">> \o numeral(n))]
    ELSE [ok |-> FALSE, n |-> 0]

\* C16: the effective page size is 12 when limit is absent, unparsable or
\* < 1, 50 when limit > 50, and the given value otherwise; the effective
\* cursor is 0 when cursor is absent, unparsable or negative; a response
\* never holds more rows than the effective page size.
C16_PageSize ==
    listed =>
        LET g == given(req.limit)
            c == given(req.cursor)
        IN  /\ (~g.ok \/ g.n < 1) => res.limit = 12
            /\ (g.ok /\ g.n > 50) => res.limit = 50
            /\ (g.ok /\ 1 <= g.n /\ g.n <= 50) => res.limit = g.n
            /\ (~c.ok \/ c.n < 0) => res.cursor = 0
            /\ Len(res.rows) <= res.limit

\* limit = 2^IntBits + 1 is served with page size 1.
C16_Witness ==
    /\ listed /\ req.limit = <<"2", "5", "7">>
    /\ res.limit = 1 /\ Len(res.rows) = 1 /\ res.hasMore

\* The rows of the request's table that its search term selects.
matching_ids ==
    LET t == SelectSeq(req.q, LAMBDA ch : ch # " ")
        hit(text) == \E i \in 1..Len(text) : \A k \in 1..Len(t) :
                        /\ i + k - 1 <= Len(text)
                        /\ tolower(text[i + k - 1]) = tolower(t[k])
    IN  IF req.q = NoQuery \/ t = <<>> THEN {r.id : r \in req.table}
        ELSE {r.id : r \in {x \in req.table : hit(x.title) \/ hit(x.filename)}}

\* C17: on an unchanged catalog every list response has nextCursor =
\* cursor + rows returned, and hasMore exactly when a matching row exists at
\* offset cursor + limit; following nextCursor from cursor 0 until hasMore
\* is false yields every matching video exactly once, in ascending id order.
C17_Paging ==
    listed =>
        LET all == req.acc \o res.rows
        IN  /\ res.nextCursor = res.cursor + Len(res.rows)
            /\ res.hasMore <=> Cardinality(matching_ids) > res.cursor + res.limit
            /\ (~res.hasMore /\ IF req.origin THEN res.cursor = 0 ELSE req.from0)
               => /\ {all[i] : i \in DOMAIN all} = matching_ids
                  /\ \A i \in DOMAIN all, j \in DOMAIN all :
                        i < j => all[i] < all[j]

\* A search over 52 rows ends its walk on the second page of 12.
C17_Witness ==
    /\ listed /\ ~res.hasMore /\ ~req.origin /\ req.from0
    /\ req.q = <<" ", "1">> /\ res.limit = 12
    /\ Len(req.acc) = 12 /\ Len(res.rows) = 3

(***************************************************************************)
(* Process life cycle: the accept loop of main, the worker pool            *)
(* (threadpool.c), the watcher thread, and the teardown after a signal.    *)
(* Everything a thread does between pthread_mutex_lock and the unlock or   *)
(* pthread_cond_wait of the pool mutex is one step.  A job is one store    *)
(* operation followed by its return.                                       *)
(***************************************************************************)
MaxJobs == 2        \* jobs submitted in one behaviour

\* The calls main makes after its loop, in order.
teardown_store_first ==
    <<"close_listener", "video_shutdown", "db_close", "thread_pool_destroy", "return">>
teardown ==
    <<"close_listener", "video_shutdown", "thread_pool_destroy", "db_close", "return">>

\* worker_main's test under the mutex, ignoring the stop flag while jobs wait.
worker_stops_when_empty(stop, queue) == stop /\ queue = <<>>
\* worker_main: "if (pool->stop) break;" after the wait loop.
worker_stops(stop, queue) == stop

lifeIdle == UNCHANGED <<authVars, catVars, histVars, reqVars, thumbVars, storeVars>>
stage == IF mainv.pc = "teardown" THEN teardown[mainv.step] ELSE ""
advance(m) == [m EXCEPT !.step = @ + 1, !.sub = "", !.done = Append(@, stage)]

\* handle_signal: SIGINT or SIGTERM arrives.
Signal ==
    /\ mainv.pc \in {"loop", "iter"} /\ mainv.g_running
    /\ mainv' = [mainv EXCEPT !.g_running = FALSE]
    /\ UNCHANGED <<pool, mwatch>>
    /\ lifeIdle

\* while (g_running): one test of the loop condition.
LoopTest ==
    /\ mainv.pc = "loop"
    /\ mainv' = IF mainv.g_running THEN [mainv EXCEPT !.pc = "iter"]
                ELSE [mainv EXCEPT !.pc = "teardown", !.step = 1]
    /\ UNCHANGED <<pool, mwatch>>
    /\ lifeIdle

\* A submit that links the new job in front of the list.
thread_pool_submit_in_front(p, j) ==
    [p EXCEPT !.next[j] = p.head,
              !.head = j,
              !.tail = IF p.tail = 0 THEN j ELSE @]
\* thread_pool_submit between lock and unlock: the job, whose next is NULL
\* from calloc, goes behind tail, or becomes head when there is no tail.
thread_pool_submit(p, j) ==
    [p EXCEPT !.next = [k \in DOMAIN @ |->
                           IF k = j THEN 0
                           ELSE IF k = p.tail /\ p.tail # 0 THEN j
                           ELSE @[k]],
              !.head = IF p.tail # 0 THEN @ ELSE j,
              !.tail = j]

\* The listener is readable: accept, make_nonblocking and
\* epoll_ctl(EPOLL_CTL_ADD); when one of the two fails the acceptor closes
\* the socket.  Sockets are numbered in the order of their accept.
AcceptClient ==
    /\ mainv.pc = "iter"
    /\ \E j \in 1..MaxJobs, ok \in BOOLEAN :
         /\ pool.jobs[j] = "none"
         /\ \A k \in 1..(j - 1) : pool.jobs[k] # "none"
         /\ IF ok
            THEN /\ mainv' = [mainv EXCEPT !.epoll = @ \cup {j}]
                 /\ pool' = [pool EXCEPT !.jobs[j] = "registered"]
            ELSE /\ pool' = [pool EXCEPT !.jobs[j] = "refused",
                                         !.closes[j] = Append(@, "main")]
                 /\ UNCHANGED mainv
    /\ UNCHANGED mwatch
    /\ lifeIdle

\* A loop that leaves the readable socket in the readiness set.
epoll_ctl_del_nothing(set, fd) == set
\* epoll_ctl(epoll_fd, EPOLL_CTL_DEL, client_fd, NULL).
epoll_ctl_del(set, fd) == set \ {fd}

\* A registered client socket is readable (the sockets are alike, so the
\* lowest is taken): EPOLL_CTL_DEL, malloc of the task (on failure the
\* acceptor closes the socket, "refused") and thread_pool_submit, which appends the
\* job and signals the condition, waking one waiting worker if there is
\* one; when its calloc fails it returns without a job.
\* A signal that wakes nobody.
pthread_cond_signal_lost(workers, woken) == workers

\* pthread_cond_signal(&pool->cond) with the pool mutex held: one of the
\* threads blocked in pthread_cond_wait, if there is any, goes on to take
\* the mutex again.
pthread_cond_signal(workers, woken) ==
    [w \in Workers |-> IF w = woken THEN "lock" ELSE workers[w]]

Submit ==
    /\ mainv.pc = "iter"
    /\ \E j \in mainv.epoll :
         /\ \A k \in mainv.epoll : j <= k
         /\ mainv' = [mainv EXCEPT !.epoll = epoll_ctl_del(@, j)]
         /\ \E woken \in IF \E w \in Workers : pool.workers[w] = "waiting"
                         THEN {w \in Workers : pool.workers[w] = "waiting"}
                         ELSE {"nobody"},
               alloc \in {"ok", "no_task", "no_job"} :
              pool' = CASE alloc = "no_task" ->
                               [pool EXCEPT !.jobs[j] = "refused",
                                            !.closes[j] = Append(@, "main")]
                        [] alloc = "no_job" ->
                               [pool EXCEPT !.jobs[j] = "dropped"]
                        [] alloc = "ok" ->
                               [thread_pool_submit(pool, j) EXCEPT
                                  !.queue = Append(@, j),
                                  !.jobs[j] = "queued",
                                  !.submits[j] = @ + 1,
                                  !.workers = pthread_cond_signal(@, woken)]
    /\ UNCHANGED mwatch
    /\ lifeIdle

\* The end of one turn of the loop.
IterEnd ==
    /\ mainv.pc = "iter"
    /\ mainv' = [mainv EXCEPT !.pc = "loop"]
    /\ UNCHANGED <<pool, mwatch>>
    /\ lifeIdle

\* close(listen_fd).
CloseListener ==
    /\ stage = "close_listener"
    /\ mainv' = [advance(mainv) EXCEPT !.listener_open = FALSE]
    /\ UNCHANGED <<pool, mwatch>>
    /\ lifeIdle

\* video_shutdown: nothing when the watcher is not running, else stop = 1.
VideoShutdown ==
    /\ stage = "video_shutdown" /\ mainv.sub = ""
    /\ IF ~mwatch.running
       THEN mainv' = advance(mainv) /\ UNCHANGED mwatch
       ELSE /\ mwatch' = [mwatch EXCEPT !.stop = TRUE]
            /\ mainv' = [mainv EXCEPT !.sub = "join"]
    /\ UNCHANGED pool
    /\ lifeIdle

\* video_shutdown: pthread_join returns, memset(&g_media_watch, 0, ..).
VideoShutdownJoin ==
    /\ stage = "video_shutdown" /\ mainv.sub = "join"
    /\ mwatch.pc = "exited"
    /\ mwatch' = [mwatch EXCEPT !.running = FALSE, !.stop = FALSE,
                                !.joined = TRUE]
    /\ mainv' = advance(mainv)
    /\ UNCHANGED pool
    /\ lifeIdle

\* thread_pool_destroy: stop = 1 and pthread_cond_broadcast under the mutex.
DestroyStop ==
    /\ stage = "thread_pool_destroy" /\ mainv.sub = ""
    /\ pool' = [pool EXCEPT
                  !.stop = TRUE,
                  !.workers = [w \in Workers |->
                                 IF @[w] = "waiting" THEN "lock" ELSE @[w]]]
    /\ mainv' = [mainv EXCEPT !.sub = "join"]
    /\ UNCHANGED mwatch
    /\ lifeIdle

\* thread_pool_destroy: every pthread_join has returned; the queued jobs
\* are freed; the function returns.
DestroyJoin ==
    /\ stage = "thread_pool_destroy" /\ mainv.sub = "join"
    /\ \A w \in Workers : pool.workers[w] = "exited"
    /\ pool' = [pool EXCEPT
                  !.queue = <<>>,
                  !.jobs = LET RECURSIVE listed_from(_)
                               listed_from(j) ==
                                   IF j = 0 THEN {}
                                   ELSE {j} \cup listed_from(pool.next[j])
                           IN  [j \in 1..MaxJobs |->
                                  IF j \in listed_from(pool.head)
                                  THEN "freed" ELSE @[j]],
                  !.destroyed = TRUE]
    /\ mainv' = advance(mainv)
    /\ UNCHANGED mwatch
    /\ lifeIdle

\* db_close(&server.db).
DbClose ==
    /\ stage = "db_close"
    /\ mainv' = [advance(mainv) EXCEPT !.db_open = FALSE]
    /\ UNCHANGED <<pool, mwatch>>
    /\ lifeIdle

\* return 0 from main.
Return ==
    /\ stage = "return"
    /\ mainv' = [mainv EXCEPT !.pc = "exited", !.exit_code = 0]
    /\ UNCHANGED <<pool, mwatch>>
    /\ lifeIdle

\* worker_main from pthread_mutex_lock to the unlock: wait while there is
\* neither stop nor a job, leave on stop, else take the head of the queue.
WorkerCheck(w) ==
    /\ pool.workers[w] = "lock"
    /\ pool' =
         IF ~pool.stop /\ pool.head = 0
         THEN [pool EXCEPT !.workers[w] = "waiting"]
         ELSE IF worker_stops(pool.stop, pool.queue)
         THEN [pool EXCEPT !.workers[w] = "exited"]
         ELSE IF pool.head = 0 THEN [pool EXCEPT !.workers[w] = "lock"]
         ELSE [pool EXCEPT !.workers[w] = "run",
                           !.running[w] = pool.head,
                           !.head = pool.next[pool.head],
                           !.tail = IF pool.next[pool.head] = 0 THEN 0 ELSE @,
                           !.queue = SelectSeq(@, LAMBDA j : j # pool.head),
                           !.taken = Append(@, pool.head),
                           !.jobs[pool.head] = "running",
                           !.taken_on_stop = @ \/ pool.stop]
    /\ UNCHANGED <<mainv, mwatch>>
    /\ lifeIdle

\* job->fn(job->arg): handle_client parses the request, which may fail,
\* performs a store operation (auth_authenticate_request) and hands the
\* request to the router or to serve_static_file, which write one response
\* or, when the response could not be formatted, none.
JobStore(w) ==
    /\ pool.workers[w] = "run"
    /\ \E path \in {"parse_failure", "api", "static", "no_response"} :
         pool' = [pool EXCEPT !.workers[w] = "finish",
                              !.calls[pool.running[w]] = @ + 1,
                              !.sent[w] =
                                  IF path \in {"api", "static"} THEN @ + 1 ELSE @]
    /\ mainv' = [mainv EXCEPT !.late_op = @ \/ ~mainv.db_open]
    /\ UNCHANGED mwatch
    /\ lifeIdle

\* close(fd) at the end of handle_client, which returns; free(job); back
\* to the top of the loop.
WorkerFinish(w) ==
    /\ pool.workers[w] = "finish"
    /\ pool' = [pool EXCEPT !.workers[w] = "lock",
                            !.closes[pool.running[w]] = Append(@, "worker"),
                            !.sent[w] = 0,
                            !.jobs[pool.running[w]] = "done",
                            !.running[w] = 0]
    /\ UNCHANGED <<mainv, mwatch>>
    /\ lifeIdle

slices == 2         \* interval_sec * 10, scaled down

\* A loop that tests the stop flag once a cycle only.
while_not_stop_sleeps_through(pc, stop, i) == pc = "sleep" /\ i < slices
\* sleep_with_stop: "i < slices && !state->stop" before every usleep.
while_not_stop(pc, stop, i) == pc = "sleep" /\ i < slices /\ ~stop

\* media_watch_loop: at "test" the while (!state->stop) of the loop, at
\* "check" the reading of the directory's mtime, which either starts a
\* synchronization or goes to sleep_with_stop.
WatcherCycle ==
    /\ mwatch.running /\ mwatch.pc \in {"test", "check"}
    /\ \E changed \in BOOLEAN :
         mwatch' = IF mwatch.pc = "test"
                   THEN [mwatch EXCEPT !.pc = IF mwatch.stop THEN "exited"
                                              ELSE "check"]
                   ELSE [mwatch EXCEPT !.pc = IF changed THEN "sync" ELSE "sleep",
                                       !.i = 0]
    /\ UNCHANGED <<mainv, pool>>
    /\ lifeIdle

\* sleep_with_stop: at "sleep" the test of its for loop, which enters
\* usleep(100000) or returns to the loop of media_watch_loop; at "usleep"
\* the end of one slice.
WatcherSleep ==
    /\ mwatch.running /\ mwatch.pc \in {"sleep", "usleep"}
    /\ mwatch' = IF mwatch.pc = "usleep"
                 THEN [mwatch EXCEPT !.pc = "sleep", !.i = @ + 1]
                 ELSE IF while_not_stop(mwatch.pc, mwatch.stop, mwatch.i)
                 THEN [mwatch EXCEPT !.pc = "usleep"]
                 ELSE [mwatch EXCEPT !.pc = "test"]
    /\ UNCHANGED <<mainv, pool>>
    /\ lifeIdle

\* sync_media_directory in the watcher: store operations.
WatcherSync ==
    /\ mwatch.pc = "sync"
    /\ mwatch' = [mwatch EXCEPT !.pc = "sleep", !.i = 0]
    /\ mainv' = [mainv EXCEPT !.late_op = @ \/ ~mainv.db_open]
    /\ UNCHANGED pool
    /\ lifeIdle

\* After thread_pool_init and video_initialize: the workers are at the top
\* of worker_main; the watcher runs unless its thread could not be created.
InitShutdown ==
    /\ AuthIdleInit /\ CatalogIdleInit /\ HistoryIdleInit /\ ThumbIdleInit /\ StoreIdleInit
    /\ req = <<>> /\ res = <<>>
    /\ mainv = [pc |-> "loop", step |-> 0, sub |-> "", g_running |-> TRUE,
                listener_open |-> TRUE, db_open |-> TRUE, exit_code |-> -1,
                done |-> <<>>, late_op |-> FALSE, epoll |-> {}]
    /\ pool = [stop |-> FALSE, queue |-> <<>>, destroyed |-> FALSE,
               head |-> 0, tail |-> 0, next |-> [j \in 0..MaxJobs |-> 0],
               taken |-> <<>>, calls |-> [j \in 1..MaxJobs |-> 0],
               submits |-> [j \in 1..MaxJobs |-> 0],
               sent |-> [w \in Workers |-> 0],
               closes |-> [j \in 1..MaxJobs |-> <<>>],
               workers |-> [w \in Workers |-> "lock"],
               running |-> [w \in Workers |-> 0],
               jobs |-> [j \in 1..MaxJobs |-> "none"],
               taken_on_stop |-> FALSE]
    /\ \E started \in BOOLEAN :
         mwatch = [running |-> started, stop |-> FALSE, pc |-> "test",
                   i |-> 0, joined |-> FALSE]

mainSteps ==
    \/ LoopTest
    \/ AcceptClient
    \/ IterEnd
    \/ CloseListener
    \/ VideoShutdown
    \/ VideoShutdownJoin
    \/ DestroyStop
    \/ DestroyJoin
    \/ DbClose
    \/ Return
threadSteps ==
    \/ \E w \in Workers : WorkerCheck(w)
    \/ \E w \in Workers : JobStore(w)
    \/ \E w \in Workers : WorkerFinish(w)
    \/ WatcherCycle
    \/ WatcherSleep
    \/ WatcherSync

NextShutdown ==
    \/ Signal
    \/ Submit
    \/ mainSteps
    \/ threadSteps

SpecShutdown == InitShutdown /\ [][NextShutdown]_vars

\* Every runnable thread is scheduled, and a job returns.
SpecShutdownFair ==
    SpecShutdown /\ WF_vars(mainSteps)
                 /\ WF_vars(WatcherCycle \/ WatcherSleep \/ WatcherSync)
                 /\ \A w \in Workers : WF_vars(WorkerCheck(w) \/ JobStore(w) \/ WorkerFinish(w))

C18_State ==
    /\ pool.destroyed =>
         /\ \A w \in Workers : pool.workers[w] = "exited"
         /\ \A j \in 1..MaxJobs :
               pool.jobs[j] \in {"none", "registered", "refused", "dropped",
                                 "done", "freed"}
         /\ pool.queue = <<>>
    /\ ~pool.taken_on_stop
    /\ \A w \in Workers : pool.workers[w] = "exited" => pool.running[w] = 0
    /\ \A j \in 1..MaxJobs :
         pool.jobs[j] = "running" =>
             \E w \in Workers : /\ pool.running[w] = j
                                /\ pool.workers[w] \in {"run", "finish"}
C18_Step ==
    /\ (~pool.stop /\ pool'.stop) =>
           \A w \in Workers : pool'.workers[w] # "waiting"
    /\ \A j \in 1..MaxJobs :
         /\ (pool.stop /\ pool.jobs[j] = "queued")
                => pool'.jobs[j] \in {"queued", "freed"}
         /\ pool.jobs[j] = "running" => pool'.jobs[j] \in {"running", "done"}

C19_State ==
    /\ mainv.pc \in {"teardown", "exited"} => ~mainv.g_running
    /\ \E n \in 0..4 :
         mainv.done = SubSeq(<<"close_listener", "video_shutdown",
                               "thread_pool_destroy", "db_close">>, 1, n)
    /\ ~mainv.late_op
    /\ ~mainv.db_open =>
         /\ ~mainv.listener_open
         /\ ~mwatch.running
         /\ \A w \in Workers : pool.workers[w] = "exited"
    /\ mainv.pc = "exited" => (mainv.exit_code = 0 /\ Len(mainv.done) = 4)

statically == res # <<>> /\ req.kind = "static"

\* C20: static serving answers 403, without any file-system call, for
\* every path that contains ".."; no 200 carries a file outside the static
\* directory or one named through ".."; "/" is answered with index.html;
\* a missing file and a directory are answered 404.
C20_StaticPaths ==
    statically =>
        LET dotdot == \E i \in 1..(Len(req.path) - 1) :
                          req.path[i] = "." /\ req.path[i + 1] = "."
            names == [i \in 1..Len(req.path) |->
                        LET before == {k \in 0..(i - 1) :
                                          k = 0 \/ req.path[k] = "/"}
                            first == CHOOSE k \in before :
                                         \A m \in before : m <= k
                        IN  SubSeq(req.path, first + 1, i)]
            ends == {i \in 1..Len(req.path) :
                        /\ req.path[i] # "/"
                        /\ i = Len(req.path) \/ req.path[i + 1] = "/"}
            target == {n \in static_tree(req.index) :
                          /\ Len(n.at) = 1 + Cardinality({i \in ends : names[i] # <<".">>})
                          /\ n.at[1] = <<"s">>
                          /\ \A k \in 2..Len(n.at) :
                                \E i \in ends :
                                    /\ names[i] = n.at[k]
                                    /\ names[i] # <<".">>
                                    /\ Cardinality({m \in ends : m <= i /\ names[m] # <<".">>}) = k - 1}
        IN  /\ dotdot => (res.status = 403 /\ res.fs_calls = 0)
            /\ res.status = 200 =>
                   /\ ~dotdot
                   /\ Len(res.file) >= 2 /\ res.file[1] = <<"s">>
            /\ (req.path = <<"/">> /\ req.index /\ ~req.vanishes) =>
                   /\ res.status = 200
                   /\ res.file = <<<<"s">>, <<"i", "n", "d", "e", "x", ".", "h", "t", "m", "l">>>>
            /\ (req.path # <<>> /\ req.path # <<"/">> /\ ~dotdot
                /\ \A n \in target : n.dir) => res.status = 404

\* A path with ".." that would resolve to the file beside the static
\* directory has been refused.
C20_Witness ==
    /\ statically
    /\ req.path = <<".", ".", "/", "a">>
    /\ res.status = 403

routed == res # <<>> /\ req.kind = "route"

\* C21: router_handle runs the handler of the first route, in table order,
\* whose method is the request's and whose pattern has as many segments as
\* the path with every literal segment equal; the context then holds the
\* bindings of that route and no others; without such a route exactly one
\* 404 is written and no handler runs.
C21_FirstMatch ==
    routed =>
        LET segs(p) ==
                LET ends == {i \in 1..Len(p) :
                                p[i] # "/" /\ (i = Len(p) \/ p[i + 1] = "/")}
                    start(i) == CHOOSE k \in 1..i :
                                    /\ \A m \in k..i : p[m] # "/"
                                    /\ k = 1 \/ p[k - 1] = "/"
                    nth(n) == CHOOSE i \in ends :
                                  Cardinality({m \in ends : m <= i}) = n
                IN  [n \in 1..Cardinality(ends) |->
                         SubSeq(p, start(nth(n)), nth(n))]
            is_param(seg) == seg[1] \in {":id", ":a", ":b"}
            name(seg) == CASE seg = <<":id">> -> <<"id">>
                           [] seg = <<":a">> -> <<"a">>
                           [] seg = <<":b">> -> <<"b">>
            fits(i) ==
                /\ req.routes[i].method = req.method
                /\ Len(segs(req.routes[i].path)) = Len(segs(req.path))
                /\ \A n \in 1..Len(segs(req.path)) :
                      is_param(segs(req.routes[i].path)[n])
                      \/ segs(req.routes[i].path)[n] = segs(req.path)[n]
            fitting == {i \in 1..Len(req.routes) : fits(i)}
        IN  IF fitting = {}
            THEN res.handler = "none" /\ res.sent = <<404>>
            ELSE LET i == CHOOSE k \in fitting : \A m \in fitting : k <= m
                     pat == segs(req.routes[i].path)
                     at == {n \in 1..Len(pat) : is_param(pat[n])}
                 IN  /\ res.handler = req.routes[i].handler
                     /\ res.sent = <<>>
                     /\ Len(res.params) = Cardinality(at)
                     /\ \A n \in at :
                           LET k == Cardinality({m \in at : m <= n})
                           IN  /\ res.params[k].key = name(pat[n])
                               /\ res.params[k].value = segs(req.path)[n]

\* A request that the second route of the table answers after the first
\* failed, with its one binding.
C21_Witness ==
    /\ routed
    /\ req.method = "GET" /\ req.path = <<"/", "videos", "/", "7">>
    /\ res.handler = "one"
    /\ res.params = <<[key |-> <<"id">>, value |-> <<"7">>]>>

(***************************************************************************)
(* Startup of the worker pool (main.c, thread_pool_init).                  *)
(***************************************************************************)
MaxCpus == 6        \* online processors sysconf may report

\* size_t worker_count = sysconf(_SC_NPROCESSORS_ONLN); 4 when that is 0;
\* then doubled.
CountWorkers ==
    /\ mainv.pc = "sysconf"
    /\ mainv' = [mainv EXCEPT
                   !.pc = "thread_pool_init",
                   !.worker_count = 2 * (IF mainv.online = 0 THEN 4
                                         ELSE mainv.online)]
    /\ UNCHANGED <<pool, mwatch>>
    /\ lifeIdle

\* thread_pool_init: the mutex, the condition and the array, then one
\* pthread_create per turn of its loop.  A failure sets stop, joins the
\* threads made so far and returns -1, and main closes the store and
\* returns 1.
ThreadPoolInit ==
    /\ mainv.pc = "thread_pool_init"
    /\ \E ok \in BOOLEAN :
         IF ok
         THEN /\ pool' = [pool EXCEPT !.created = @ + 1]
              /\ mainv' = IF pool.created + 1 = mainv.worker_count
                          THEN [mainv EXCEPT !.pc = "ready"]
                          ELSE mainv
         ELSE /\ pool' = [pool EXCEPT !.stop = TRUE, !.joined = pool.created]
              /\ mainv' = [mainv EXCEPT !.pc = "db_close"]
    /\ UNCHANGED mwatch
    /\ lifeIdle

\* create_listen_socket; on failure thread_pool_destroy, db_close, return 1.
CreateListenSocket ==
    /\ mainv.pc = "ready"
    /\ \E ok \in BOOLEAN :
         IF ok
         THEN /\ mainv' = [mainv EXCEPT !.pc = "epoll"]
              /\ UNCHANGED pool
         ELSE /\ mainv' = [mainv EXCEPT !.pc = "db_close"]
              /\ pool' = [pool EXCEPT !.stop = TRUE, !.joined = pool.created]
    /\ UNCHANGED mwatch
    /\ lifeIdle

\* epoll_create1 and epoll_ctl ADD of the listener; on failure close,
\* thread_pool_destroy, db_close, return 1.
EpollSetup ==
    /\ mainv.pc = "epoll"
    /\ \E ok \in BOOLEAN :
         IF ok
         THEN /\ mainv' = [mainv EXCEPT !.pc = "loop"]
              /\ UNCHANGED pool
         ELSE /\ mainv' = [mainv EXCEPT !.pc = "db_close"]
              /\ pool' = [pool EXCEPT !.stop = TRUE, !.joined = pool.created]
    /\ UNCHANGED mwatch
    /\ lifeIdle

\* db_close(&server.db) on a failure path; video_shutdown is not called.
StartupDbClose ==
    /\ mainv.pc = "db_close"
    /\ mainv' = [mainv EXCEPT !.pc = "return", !.db_open = FALSE]
    /\ UNCHANGED <<pool, mwatch>>
    /\ lifeIdle

\* return 1: the process ends, and its threads with it.
StartupReturn ==
    /\ mainv.pc = "return"
    /\ mainv' = [mainv EXCEPT !.pc = "exited", !.exit_code = 1]
    /\ UNCHANGED <<pool, mwatch>>
    /\ lifeIdle

\* One cycle of media_watch_loop while main starts up: it reads the mtime
\* and, when the directory has changed, synchronizes, which runs store
\* operations on whatever the store handle is by then.
StartupWatcher ==
    /\ mainv.pc # "exited"
    /\ mwatch.running /\ ~mwatch.joined /\ ~mwatch.stop
    /\ \E changed \in BOOLEAN :
         mwatch' = [mwatch EXCEPT !.synced = @ \/ changed,
                                  !.on_closed = @ \/ (changed /\ ~mainv.db_open)]
    /\ UNCHANGED <<mainv, pool>>
    /\ lifeIdle

InitStartup ==
    /\ AuthIdleInit /\ CatalogIdleInit /\ HistoryIdleInit /\ ThumbIdleInit /\ StoreIdleInit
    /\ req = <<>> /\ res = <<>>
    /\ \E n \in 0..MaxCpus :
         mainv = [pc |-> "sysconf", online |-> n, worker_count |-> 0,
                  exit_code |-> -1, db_open |-> TRUE]
    /\ pool = [stop |-> FALSE, created |-> 0, joined |-> 0]
    /\ \E started \in BOOLEAN :
         mwatch = [running |-> started, stop |-> FALSE, joined |-> FALSE,
                   synced |-> FALSE, on_closed |-> FALSE]

NextStartup ==
    \/ CountWorkers
    \/ ThreadPoolInit
    \/ CreateListenSocket
    \/ EpollSetup
    \/ StartupDbClose
    \/ StartupReturn
    \/ StartupWatcher

SpecStartup == InitStartup /\ [][NextStartup]_vars

\* C22: for every online processor count n >= 1 the pool that startup
\* leaves running has max(8, 2 * n) worker threads.
C22_WorkerCount ==
    (mainv.pc = "ready" /\ mainv.online >= 1) =>
        pool.created = (IF 2 * mainv.online > 8 THEN 2 * mainv.online ELSE 8)

\* One online processor: startup is over with two workers.
C22_Witness ==
    mainv.pc = "ready" /\ mainv.online = 1 /\ pool.created = 2

\* C23: the pool queue is first in, first out and hands every job to one
\* worker only: jobs leave in the order they were submitted, no job leaves
\* twice or is called twice, and head is NULL exactly when tail is NULL
\* whenever the pool mutex is free.  Until thread_pool_destroy has freed
\* it, the list from head is the jobs submitted and not yet taken, in order.
C23_Fifo ==
    /\ (pool.head = 0) <=> (pool.tail = 0)
    /\ \A i \in 1..Len(pool.taken) :
          /\ \A k \in 1..Len(pool.taken) : i < k => pool.taken[i] < pool.taken[k]
          /\ \A j \in 1..MaxJobs :
                (j < pool.taken[i] /\ pool.submits[j] >= 1)
                    => \E k \in 1..(i - 1) : pool.taken[k] = j
    /\ \A j \in 1..MaxJobs :
          /\ pool.calls[j] <= 1
          /\ pool.calls[j] = 1 => \E i \in 1..Len(pool.taken) : pool.taken[i] = j
          /\ Cardinality({w \in Workers : pool.running[w] = j}) <= 1
    /\ (pool.head # 0 /\ ~pool.destroyed) =>
          /\ pool.queue # <<>> /\ pool.head = Head(pool.queue)
          /\ pool.tail = pool.queue[Len(pool.queue)]
          /\ pool.next[pool.tail] = 0
          /\ \A i \in 1..(Len(pool.queue) - 1) :
                pool.next[pool.queue[i]] = pool.queue[i + 1]
    /\ pool.head = 0 => pool.queue = <<>>

\* Two jobs waited in the list together and both have been taken, each by
\* another worker.
C23_Witness ==
    /\ Len(pool.taken) >= 2
    /\ pool.next[pool.taken[1]] = pool.taken[2]
    /\ \E v, w \in Workers :
          v # w /\ pool.running[v] = pool.taken[1] /\ pool.running[w] = pool.taken[2]

C24_State ==
    \A j \in 1..MaxJobs :
        /\ pool.submits[j] <= 1
        /\ pool.submits[j] = 1 =>
              /\ j \notin mainv.epoll
              /\ \A i \in 1..Len(pool.closes[j]) : pool.closes[j][i] = "worker"
        /\ \A w \in Workers :
              /\ pool.sent[w] <= 1
              /\ pool.sent[w] = 1 => (pool.workers[w] = "finish"
                                      /\ pool.closes[pool.running[w]] = <<>>)
        /\ Len(pool.closes[j]) <= 1
        /\ pool.jobs[j] = "done" => pool.closes[j] = <<"worker">>
        /\ pool.jobs[j] \in {"queued", "running"} => pool.closes[j] = <<>>
C24_Step ==
    \A j \in 1..MaxJobs :
        /\ pool'.submits[j] > pool.submits[j] =>
              (j \in mainv.epoll /\ j \notin mainv'.epoll)
        /\ \A w \in Workers :
              pool'.sent[w] > pool.sent[w] =>
                  (pool.running[w] = j => pool.closes[j] = <<>>)

\* C24: an accepted client socket leaves the readiness set in the step that
\* hands it to the pool, is submitted at most once, is not closed by the
\* acceptor once submitted, and the worker that runs its job writes at most
\* one response and then closes it, once, on every path of handle_client.
C24_SoleOwner == []C24_State /\ [][C24_Step]_vars

\* One socket has been closed by its worker, and the other worker is
\* about to close a second one after writing its response.
C24_Witness ==
    \E j, k \in 1..MaxJobs, w \in Workers :
        /\ pool.jobs[j] = "done" /\ pool.closes[j] = <<"worker">>
        /\ pool.running[w] = k /\ pool.workers[w] = "finish"
        /\ pool.sent[w] = 1 /\ pool.closes[k] = <<>>

(***************************************************************************)
(* SpecWatch: the watcher thread alone with the media directory.           *)
(***************************************************************************)
NextWatch ==
    \/ WatchCheck
    \/ ReadEntry(Watcher)
    \/ Prune(Watcher)
    \/ WatchUpdate
    \/ AddFile
    \/ RemoveFile
    \/ TickCatalog

SpecWatch == InitCatalog /\ [][NextWatch]_vars

(***************************************************************************)
(* db_prune_missing_videos on its own: a videos table, a list of names,    *)
(* and the call made on them again and again.                              *)
(***************************************************************************)
MaxCalls == 2        \* successful prune calls in one behaviour

\* The names a videos row can carry: what the readdir loop keeps, which is
\* never empty.
PruneNames == {f \in Files : sync_keeps(f)} \cup {<<"e", ".", "m", "p", "4">>}

\* The videos tables: each name in at most one row, each id on at most one
\* row, the title made from the name, the duration unknown or probed.
PruneTables ==
    LET Cells == [PruneNames -> [id : 0..3, duration_seconds : {0, KnownDuration}]]
        table(a) == {[id |-> a[f].id, filename |-> f, title |-> make_title(f),
                      duration_seconds |-> a[f].duration_seconds] :
                        f \in {g \in PruneNames : a[g].id # 0}}
    IN  {table(a) : a \in {c \in Cells :
            \A f, g \in PruneNames : (f # g /\ c[f].id # 0) => c[f].id # c[g].id}}

\* The lists a caller can pass: any names, an empty one among them.
PruneLists == SUBSET (PruneNames \cup {<<>>})

InitPrune ==
    /\ videos \in PruneTables
    /\ ev \in {[ev0 EXCEPT !.kind = "prune", !.rows = videos, !.present = X] :
                 X \in PruneLists}
    /\ faults = 0 /\ changes = 0
    /\ dir = {} /\ dir_mtime_v = 0 /\ clock = 0 /\ sy = <<>> /\ watch = <<>>
    /\ AuthIdleInit /\ HistoryIdleInit /\ ExtIdleInit

\* One call db_prune_missing_videos(db, X, count): ev.rows is the table
\* before the first call, ev.status the calls that returned 0 so far.
PruneCall ==
    /\ ev.kind = "prune"
    /\ \E ok \in BOOLEAN :
         IF ok
         THEN /\ ev.status < MaxCalls
              /\ videos' = db_prune_missing_videos(videos, ev.present)
              /\ ev' = [ev EXCEPT !.status = @ + 1, !.result = 0]
              /\ UNCHANGED faults
         ELSE /\ faults < MaxFaults
              /\ faults' = faults + 1
              /\ ev' = [ev EXCEPT !.result = -1]
              /\ UNCHANGED videos
    /\ UNCHANGED <<dir, dir_mtime_v, clock, sy, watch, changes>>
    /\ authIdle /\ histIdle

SpecPrune == InitPrune /\ [][PruneCall]_vars

(***************************************************************************)
(* The store mutex: db_lock / db_unlock around every store operation, on   *)
(* the worker threads and the watcher thread.                              *)
(***************************************************************************)
MaxRows == 2         \* rows one listing statement steps over

\* The shapes of the store operations: the statements run before any row is
\* stepped (every one can fail), whether rows are stepped, and the row
\* callback. history_handle_get locks db->mutex itself and builds its
\* answer in the loop body.
StoreOps ==
    { [name |-> "db_get_session", fixed |-> 2, rows |-> FALSE, callback |-> "none"],
      [name |-> "db_upsert_video", fixed |-> 2, rows |-> FALSE, callback |-> "none"],
      [name |-> "db_prune_missing_videos", fixed |-> 5, rows |-> FALSE,
       callback |-> "none"],
      [name |-> "db_query_videos", fixed |-> 1, rows |-> TRUE,
       callback |-> "append_video_row"],
      [name |-> "db_list_watch_history", fixed |-> 1, rows |-> TRUE,
       callback |-> "collect_resume"],
      [name |-> "history_handle_get", fixed |-> 1, rows |-> TRUE,
       callback |-> "loop_body"] }

\* The watcher thread only synchronizes; a worker runs every operation.
StoreOpsOf(t) ==
    IF t = Watcher
    THEN {o \in StoreOps : o.name \in {"db_upsert_video", "db_prune_missing_videos"}}
    ELSE StoreOps

\* A row callback that reads the resume position from the store.
callback_calls_the_store(cb) ==
    IF cb = "append_video_row"
    THEN {o \in StoreOps : o.name = "db_get_session"}
    ELSE {}

\* The store operations a row callback calls: append_video_row looks the
\* resume position up in the map built beforehand and appends to the string
\* builder, collect_resume adds to the map, the loop body of
\* history_handle_get appends to the string builder.
callback_calls(cb) == {}

store_out == [pc |-> "out", op |-> "", left |-> 0, rows |-> 0, callback |-> "none"]

InitStore ==
    /\ dbmutex = [owner |-> "", th |-> [t \in Threads |-> store_out]]
    /\ AuthIdleInit /\ CatalogIdleInit /\ HistoryIdleInit
    /\ req = <<>> /\ res = <<>> /\ ThumbIdleInit /\ LifeIdleInit

storeIdle == UNCHANGED <<authVars, catVars, histVars, reqVars, thumbVars, lifeVars>>

\* A thread enters a store operation and reaches its pthread_mutex_lock.
StoreCall(t) ==
    /\ dbmutex.th[t].pc = "out"
    /\ \E o \in StoreOpsOf(t) :
         dbmutex' = [dbmutex EXCEPT !.th[t] =
                        [pc |-> "lock", op |-> o.name, left |-> o.fixed, rows |-> 0,
                         callback |-> IF o.rows THEN o.callback ELSE "none"]]
    /\ storeIdle

\* pthread_mutex_lock returns once the mutex is free.
db_lock(t) ==
    /\ dbmutex.th[t].pc = "lock"
    /\ dbmutex.owner = ""
    /\ dbmutex' = [dbmutex EXCEPT !.owner = t, !.th[t].pc = "stmt"]
    /\ storeIdle

\* One sqlite3_exec / sqlite3_prepare_v2 / sqlite3_step of the operation: it
\* fails and the operation goes to its unlock, or it succeeds.
StoreStatement(t) ==
    /\ dbmutex.th[t].pc = "stmt"
    /\ \E ok \in BOOLEAN :
         dbmutex' = [dbmutex EXCEPT !.th[t].left = IF ok THEN @ - 1 ELSE @,
                        !.th[t].pc =
                            IF ~ok THEN "unlock"
                            ELSE IF dbmutex.th[t].left > 1 THEN "stmt"
                            ELSE IF dbmutex.th[t].callback # "none" THEN "step"
                            ELSE "unlock"]
    /\ storeIdle

\* while ((rc = sqlite3_step(stmt)) == SQLITE_ROW): a row, the end, an error.
StoreStep(t) ==
    /\ dbmutex.th[t].pc = "step"
    /\ \E rc \in {"SQLITE_ROW", "SQLITE_DONE", "SQLITE_ERROR"} :
         IF rc = "SQLITE_ROW"
         THEN /\ dbmutex.th[t].rows < MaxRows
              /\ dbmutex' = [dbmutex EXCEPT !.th[t].rows = @ + 1,
                                            !.th[t].pc = "callback"]
         ELSE dbmutex' = [dbmutex EXCEPT !.th[t].pc = "unlock"]
    /\ storeIdle

\* The row callback runs with the mutex held: it returns 0 and the loop goes
\* on, or it fails (allocation) and the loop breaks. A store operation called
\* from it would reach pthread_mutex_lock.
RowCallback(t) ==
    /\ dbmutex.th[t].pc = "callback"
    /\ IF callback_calls(dbmutex.th[t].callback) # {}
       THEN \E o \in callback_calls(dbmutex.th[t].callback) :
              dbmutex' = [dbmutex EXCEPT !.th[t].pc = "lock", !.th[t].op = o.name]
       ELSE \E rc \in {0, -1} :
              dbmutex' = [dbmutex EXCEPT !.th[t].pc =
                                             IF rc = 0 THEN "step" ELSE "unlock"]
    /\ storeIdle

\* sqlite3_finalize and whatever the operation cleans up, pthread_mutex_unlock,
\* return.
db_unlock(t) ==
    /\ dbmutex.th[t].pc = "unlock"
    /\ dbmutex' = [dbmutex EXCEPT !.owner = "", !.th[t] = store_out]
    /\ storeIdle

NextStore ==
    \E t \in Threads :
        \/ StoreCall(t)
        \/ db_lock(t)
        \/ StoreStatement(t)
        \/ StoreStep(t)
        \/ RowCallback(t)
        \/ db_unlock(t)

SpecStore == InitStore /\ [][NextStore]_vars

C25_State ==
    /\ ev.kind = "watch_cycle" =>
          /\ (ev.status = 1) <=> (ev.result > 0 /\ ev.result # watch.last_mtime)
          /\ (ev.status = 1) <=> (sy[Watcher].pc = "scan")
          /\ ev.status = 0 => sy[Watcher].pc = "idle"
    /\ (ev.kind = "sync_return" /\ ev.thread = Watcher) =>
          /\ ev.result = 0 => sy[Watcher].pc = "update_mtime"
          /\ ev.result # 0 => sy[Watcher].pc = "idle"
C25_Step ==
    /\ ev'.kind \in {"watch_cycle", "sync_return"} => watch' = watch
    /\ watch' # watch =>
          /\ sy[Watcher].pc = "update_mtime"
          /\ watch'.last_mtime \in {dir_mtime_v, 0}
    /\ (sy[Watcher].pc = "update_mtime" /\ sy'[Watcher].pc # "update_mtime") =>
          watch'.last_mtime \in {dir_mtime_v, 0}

\* C25: a watcher cycle starts a synchronization exactly when the mtime it
\* read is not 0 and is not the remembered one; after a synchronization
\* that returned 0 the remembered mtime becomes the value dir_mtime returns
\* then; after one that failed it keeps its value, so the next cycle
\* synchronizes again while the directory's mtime still differs.
C25_WatchCycle == []C25_State /\ [][C25_Step]_vars

\* The directory changed once, the synchronization the watcher started
\* for it failed in an upsert, and a later cycle starts another one with
\* the remembered mtime still the old one.
C25_Witness ==
    /\ ev.kind = "watch_cycle" /\ ev.status = 1
    /\ changes = 1 /\ faults = 1
    /\ watch.last_mtime = 1 /\ dir_mtime_v = 2 /\ ev.result = 2

C26_State ==
    /\ mwatch.joined => (~mwatch.running /\ mwatch.pc = "exited")
    /\ (~mwatch.running /\ ~mwatch.joined) => (~mwatch.stop /\ mwatch.pc = "test")
C26_Step ==
    /\ mwatch.stop =>
          /\ mwatch'.pc = "check" => mwatch.pc = "check"
          /\ mwatch'.pc = "sync" => mwatch.pc \in {"check", "sync"}
          /\ mwatch'.pc = "usleep" => mwatch.pc = "usleep"
    /\ (stage = "video_shutdown" /\ stage' # "video_shutdown" /\ ~mwatch.running)
          => mwatch' = mwatch

\* C26: once video_shutdown has set the stop flag the watcher begins no
\* new cycle and no synchronization beyond the cycle it is in, enters no
\* further 100 ms slice, and exits, so that video_shutdown returns;
\* video_shutdown without a running watcher changes nothing.
C26_WatcherStops ==
    /\ []C26_State
    /\ [][C26_Step]_vars
    /\ (mwatch.stop ~> mwatch.joined)

\* The stop flag is set while the watcher is inside a slice of its sleep.
C26_Witness ==
    mwatch.running /\ mwatch.stop /\ mwatch.pc = "usleep" /\ mwatch.i = 0

C27_State ==
    ev.kind = "sync_return" =>
        /\ ev.failed = "upsert" <=> ev.result = -1
        /\ ev.failed = "prune" => ev.result = 0
C27_Step ==
    /\ (ev'.kind = "sync_return" /\ ev'.failed # "") => videos' = videos
    /\ (\E row \in videos : \A kept \in videos' : kept.filename # row.filename)
          => (ev'.kind = "sync_return" /\ ev'.result = 0 /\ ev'.failed = "")

\* C27: a synchronization in which an upsert fails returns -1 without
\* pruning: it deletes no row and the rows it had upserted stay; rows are
\* deleted only by the prune of a synchronization that returns 0; a prune
\* that fails still lets the synchronization return 0.
C27_NoPruneAfterFailure == []C27_State /\ [][C27_Step]_vars

\* A synchronization has returned -1 after a failed upsert and the row of
\* a file that is gone from the directory is still in the table.
C27_Witness ==
    /\ ev.kind = "sync_return" /\ ev.result = -1 /\ ev.failed = "upsert"
    /\ \E row \in videos : row.filename \notin dir

C28_State ==
    ev.kind = "prune" =>
        /\ \A r \in ev.rows : r.filename \in ev.present => r \in videos
        /\ ev.status >= 1 =>
             /\ videos = {r \in ev.rows : r.filename \in ev.present}
             /\ ev.present = {} => videos = {}
C28_Step ==
    (ev.kind = "prune" /\ ev.status >= 1) => videos' = videos

\* C28: a call of db_prune_missing_videos that returns 0 leaves exactly the
\* rows whose filename is listed (none when nothing is listed), a further
\* call with the same list changes nothing, and a listed row is never
\* deleted or modified.
C28_PruneExact == []C28_State /\ [][C28_Step]_vars

\* Two calls have returned 0 on a table of which the first deleted a row
\* and kept another.
C28_Witness ==
    /\ ev.kind = "prune" /\ ev.status = 2
    /\ videos # {} /\ videos # ev.rows

StoreInside(t) == dbmutex.th[t].pc \in {"stmt", "step", "callback", "unlock"}

C29_State ==
    /\ Cardinality({t \in Threads : StoreInside(t)}) <= 1
    /\ \A t \in Threads : StoreInside(t) <=> dbmutex.owner = t
    /\ \A t \in Threads : dbmutex.th[t].pc = "lock" => dbmutex.owner # t
C29_Step ==
    /\ dbmutex'.owner # dbmutex.owner => (dbmutex.owner = "" \/ dbmutex'.owner = "")
    /\ \A t \in Threads :
         (StoreInside(t) /\ dbmutex'.th[t].pc = "out") => dbmutex'.owner = ""

\* C29: at most one thread is inside a store operation; the thread inside is
\* the one holding the mutex, from its lock to its unlock on every path,
\* errors included; a thread that waits for the mutex never holds it.
C29_OneInside == []C29_State /\ [][C29_Step]_vars

\* One worker is in a row callback under the mutex while the other worker
\* and the watcher wait for the mutex.
C29_Witness ==
    /\ \E t \in Workers : dbmutex.th[t].pc = "callback"
    /\ Cardinality({t \in Threads : dbmutex.th[t].pc = "lock"}) = 2

\* C30: right after a login processed at time t has answered 200, the
\* sessions table holds the session it issued and no session whose
\* expires_at is less than t.
C30_LoginPurges ==
    [][(out'.kind = "login" /\ out'.status = 200) =>
          /\ \E s \in sessions' : s.token = out'.sc_token /\ ~(s.expires_at < out'.t)
          /\ \A s \in sessions' : ~(s.expires_at < out'.t)]_vars

\* A login processed at time 3 has answered 200 and a session that expired
\* at time 2 is in the table.
C30_Witness ==
    /\ out.kind = "login" /\ out.status = 200 /\ out.t = 3
    /\ \E s \in sessions : s.expires_at = 2

(***************************************************************************)
(* http_parse_request: the receive loop, the growable buffer, the body.    *)
(* Sizes are in bytes; the peer sends `wire` bytes and then closes.        *)
(***************************************************************************)
HTTP_INITIAL_BUFFER == 8192
HTTP_MAX_BUFFER == 8 * 1024 * 1024

\* The sizes recv can return besides everything that fits: one TCP segment.
Segment == 4000

\* ensure_capacity with owns_raw_data set: nothing to do when required fits,
\* else double until required fits, -1 once the doubling passes the cap
\* (realloc itself succeeds).
ensure_capacity(capacity, required) ==
    LET RECURSIVE grow(_)
        grow(c) == IF c < required /\ c <= HTTP_MAX_BUFFER THEN grow(c * 2) ELSE c
        new_cap == grow(capacity * 2)
    IN  IF required <= capacity THEN [rc |-> 0, capacity |-> capacity]
        ELSE IF new_cap > HTTP_MAX_BUFFER THEN [rc |-> -1, capacity |-> capacity]
        ELSE [rc |-> 0, capacity |-> new_cap]

\* The requests on the wire: header_len is the length of the header block
\* with its terminator (0: the bytes hold no terminator), content_length the
\* value of the Content-Length header, wire the bytes the peer sends.
ParseRequests ==
    {[kind |-> "parse", header_len |-> h, content_length |-> c, wire |-> h + b,
      well_formed |-> wf] :
        h \in {100, 8191, 8192, 8193, 20000, HTTP_MAX_BUFFER - 1},
        c \in {0, 50, 9000, HTTP_MAX_BUFFER, HTTP_MAX_BUFFER + 1},
        b \in {0, 50, 9000}, wf \in BOOLEAN}
    \cup
    {[kind |-> "parse", header_len |-> 0, content_length |-> 0, wire |-> n,
      well_formed |-> FALSE] :
        n \in {100, 8191, 8192, 20000, HTTP_MAX_BUFFER + 100}}

parse0 ==
    [pc |-> "top", capacity |-> HTTP_INITIAL_BUFFER, total |-> 0, missing |-> 0,
     grown |-> FALSE, closed |-> FALSE, rc |-> 0]

InitParse ==
    /\ AuthIdleInit /\ CatalogIdleInit /\ HistoryIdleInit
    /\ ThumbIdleInit /\ LifeIdleInit /\ StoreIdleInit
    /\ req \in {r \in ParseRequests : r.content_length <= HTTP_MAX_BUFFER
                                        => r.wire <= r.header_len + r.content_length}
    /\ res = parse0

parseIdle == UNCHANGED <<req, authVars, catVars, histVars, thumbVars, lifeVars, storeVars>>

parse_fail(r) == [r EXCEPT !.pc = "done", !.rc = -1]

\* while (!header_end): if (total + 1 >= capacity) ensure_capacity(total + 1).
ParseTop ==
    /\ req.kind = "parse" /\ res.pc = "top"
    /\ LET e == ensure_capacity(res.capacity, res.total + 1)
       IN  res' = IF res.total + 1 >= res.capacity /\ e.rc # 0 THEN parse_fail(res)
                  ELSE [res EXCEPT !.pc = "recv", !.capacity = e.capacity,
                                   !.grown = @ \/ e.capacity # res.capacity]
    /\ parseIdle

\* The sizes one recv(fd, raw + total, room, 0) can return on a blocking
\* socket: 0 when room is 0 or the peer has closed, else what has arrived.
recv(room, left) ==
    IF room = 0 \/ left = 0 THEN {0}
    ELSE {n \in {room, left, Segment} : n <= room /\ n <= left}

\* recv in the header loop, strstr for the terminator, the cap test.
ParseRecv ==
    /\ req.kind = "parse" /\ res.pc = "recv"
    /\ \E n \in recv(res.capacity - res.total - 1, req.wire - res.total) :
         LET total == res.total + n
         IN  res' = IF n <= 0
                    THEN [parse_fail(res) EXCEPT !.closed = req.wire = res.total]
                    ELSE IF req.header_len # 0 /\ total >= req.header_len
                    THEN [res EXCEPT !.pc = "request_line", !.total = total]
                    ELSE IF total >= HTTP_MAX_BUFFER
                    THEN [parse_fail(res) EXCEPT !.total = total]
                    ELSE [res EXCEPT !.pc = "top", !.total = total]
    /\ parseIdle

\* The request line, the headers, Content-Length against the cap, and the
\* buffer for the part of the body that has not arrived.
ParseHeaders ==
    /\ req.kind = "parse" /\ res.pc = "request_line"
    /\ LET available_body == res.total - req.header_len
           e == ensure_capacity(res.capacity, req.header_len + req.content_length + 1)
       IN  res' = IF ~req.well_formed THEN parse_fail(res)
                  ELSE IF req.content_length > HTTP_MAX_BUFFER THEN parse_fail(res)
                  ELSE IF req.content_length <= available_body
                  THEN [res EXCEPT !.pc = "done", !.rc = 0]
                  ELSE IF e.rc # 0 THEN parse_fail(res)
                  ELSE [res EXCEPT !.pc = "body", !.capacity = e.capacity,
                                   !.grown = @ \/ e.capacity # res.capacity,
                                   !.missing = req.content_length - available_body]
    /\ parseIdle

\* while (missing > 0) recv.
ParseBody ==
    /\ req.kind = "parse" /\ res.pc = "body"
    /\ \E n \in recv(res.capacity - res.total - 1, req.wire - res.total) :
         LET consumed == IF n > res.missing THEN res.missing ELSE n
         IN  res' = IF n <= 0
                    THEN [parse_fail(res) EXCEPT !.closed = req.wire = res.total]
                    ELSE [res EXCEPT !.total = @ + n, !.missing = @ - consumed,
                                     !.pc = IF res.missing = consumed THEN "done"
                                            ELSE "body"]
    /\ parseIdle

NextParse ==
    \/ ParseTop
    \/ ParseRecv
    \/ ParseHeaders
    \/ ParseBody

SpecParse == InitParse /\ [][NextParse]_vars

\* C31: a well-formed request whose header block is larger than the initial
\* buffer and smaller than the cap, sent whole, is accepted; a request with
\* no terminator fails only once the cap is reached or the peer has
\* stopped; a Content-Length above the cap fails.
C31_GrowsBuffer ==
    (req.kind = "parse" /\ res.pc = "done") =>
        /\ (/\ req.well_formed /\ req.header_len > HTTP_INITIAL_BUFFER
            /\ req.header_len < HTTP_MAX_BUFFER
            /\ req.content_length <= HTTP_MAX_BUFFER - req.header_len - 1
            /\ req.wire = req.header_len + req.content_length) => res.rc = 0
        /\ (req.header_len = 0 /\ res.rc = -1) =>
              (res.total >= HTTP_MAX_BUFFER \/ res.closed)
        /\ req.content_length > HTTP_MAX_BUFFER => res.rc = -1

\* A well-formed request with a header block of 8193 bytes and no body has
\* been refused with 8191 bytes read and the buffer never grown.
C31_Witness ==
    /\ req.kind = "parse" /\ req.well_formed /\ req.header_len = 8193
    /\ req.content_length = 0 /\ req.wire = 8193
    /\ res.pc = "done" /\ res.rc = -1 /\ res.total = 8191 /\ ~res.grown

(***************************************************************************)
(* The catalog started on a media directory that holds no video yet.       *)
(***************************************************************************)
InitEmptyMedia ==
    /\ dir = { <<".", "c", ".", "m", "p", "4">>, <<"d", ".", "t", "x", "t">> }
    /\ clock = 1
    /\ dir_mtime_v = 1
    /\ videos = sync_alone({}, {e \in dir : sync_keeps(e)}, {})
    /\ sy = [t \in Threads |-> sy0]
    /\ watch = [last_mtime |-> 1]
    /\ changes = 0 /\ faults = 0
    /\ ev = ev0
    /\ AuthIdleInit /\ HistoryIdleInit /\ ExtIdleInit

SpecEmptyMedia == InitEmptyMedia /\ [][NextCatalog]_vars

\* C32: no step deletes or renumbers the row of a file that is in the media
\* directory before and after the step, so a file that stays present keeps
\* its video id through every interleaving of synchronizations.
C32_KeepsId ==
    [][\A r \in videos :
          (r.filename \in dir /\ r.filename \in dir') =>
              \E kept \in videos' : kept.filename = r.filename /\ kept.id = r.id]_vars

\* Two files were added to the empty directory and none removed, and a row
\* carries the id 3: a file that stayed present was deleted and inserted anew.
C32_Witness ==
    /\ changes = 2 /\ faults = 0
    /\ {e \in dir : sync_keeps(e)} = {r.filename : r \in videos}
    /\ Cardinality(videos) = 2
    /\ \E r \in videos : r.id = 3

\* C33: with only the watcher running, a change of the directory that no
\* scan has taken in is followed by a synchronization: whenever the watcher
\* is at its loop test and the table differs from the directory, the
\* directory's mtime differs from the remembered one, so the next cycle that
\* reads the mtime synchronizes.
C33_ChangePickedUp ==
    (/\ sy[Watcher].pc = "idle" /\ faults = 0
     /\ {r.filename : r \in videos} # {e \in dir : sync_keeps(e)})
        => watch.last_mtime # dir_mtime_v

\* A file was added after the scan of a synchronization and before the
\* watcher reads the mtime again: the synchronization has returned 0, the
\* file is in no row, and the watcher is about to remember the new mtime.
C33_Witness ==
    /\ sy[Watcher].pc = "update_mtime" /\ faults = 0 /\ changes = 2
    /\ dir_mtime_v = 2 /\ watch.last_mtime = 1
    /\ \E e \in dir : sync_keeps(e) /\ e \notin {r.filename : r \in videos}

\* C34: when main returns, every client socket that accept returned has
\* been closed, by the acceptor or by the worker that ran its job.
C34_AllClosed ==
    mainv.pc = "exited" =>
        \A j \in 1..MaxJobs : pool.jobs[j] # "none" => Len(pool.closes[j]) = 1

\* main has returned while one accepted socket is still registered, never
\* handed to the pool, and another one's job was freed unstarted: neither
\* was closed.
C34_Witness ==
    /\ mainv.pc = "exited"
    /\ \E j, k \in 1..MaxJobs :
         /\ pool.jobs[j] = "registered" /\ j \in mainv.epoll /\ pool.closes[j] = <<>>
         /\ pool.jobs[k] = "freed" /\ pool.closes[k] = <<>>

\* C35: on every exit path of main taken after the watcher was started the
\* watcher is stopped and joined before the store is closed, and it never
\* synchronizes against a closed store.
C35_WatcherJoinedFirst ==
    /\ (~mainv.db_open /\ mwatch.running) => (mwatch.stop /\ mwatch.joined)
    /\ ~mwatch.on_closed

\* The listen socket could not be created: main has closed the store with
\* the watcher neither stopped nor joined, and the watcher has started a
\* synchronization since.
C35_Witness ==
    /\ mainv.pc = "return" /\ ~mainv.db_open /\ pool.created = mainv.worker_count
    /\ mwatch.running /\ ~mwatch.stop /\ ~mwatch.joined /\ mwatch.on_closed

\* C36: while the stop flag is not set, a job that thread_pool_submit has
\* queued is eventually taken and run by a worker, whatever the workers
\* were doing when it was queued.
C36_NoLostWakeup ==
    \A j \in 1..MaxJobs :
        (pool.jobs[j] = "queued") ~> (pool.jobs[j] \in {"running", "done"} \/ pool.stop)

\* Both jobs have been run to their end with the stop flag never set, and
\* both workers are back in the condition wait.
C36_Witness ==
    /\ ~pool.stop /\ mainv.g_running
    /\ \A j \in 1..MaxJobs : pool.jobs[j] = "done"
    /\ \A w \in Workers : pool.workers[w] = "waiting"


(***************************************************************************)
(* SpecHistorySync: history updates of one worker while the watcher        *)
(* synchronizes the catalog with a directory that loses files.             *)
(***************************************************************************)
Updater == CHOOSE w \in Workers : TRUE

InitHistorySync ==
    /\ AuthIdleInit /\ ExtIdleInit
    /\ dir = { <<"a", "_", "1", ".", "m", "p", "4">>, <<"d", ".", "t", "x", "t">> }
    /\ clock = 1 /\ dir_mtime_v = 1
    /\ videos = sync_alone({}, {e \in dir : sync_keeps(e)}, {})
    /\ sy = [t \in Threads |-> sy0]
    /\ watch = [last_mtime |-> 1]
    /\ changes = 0 /\ faults = 0 /\ ev = ev0
    /\ watch_history = {}
    /\ hw = [w \in Workers |-> hw0]
    /\ commits = [k \in UserIds \X {r.id : r \in videos} |-> {}]
    /\ hev = hev0

NextHistorySync ==
    \/ HistoryCheck(Updater, {TRUE})
    \/ HistoryUpdate(Updater)
    \/ WatchCheck
    \/ ReadEntry(Watcher)
    \/ Prune(Watcher)
    \/ WatchUpdate
    \/ RemoveFile
    \/ TickCatalog

SpecHistorySync == InitHistorySync /\ [][NextHistorySync]_vars

C38_State ==
    \A r \in watch_history : \E v \in videos : v.id = r.video_id

\* The step in which a worker's upsert runs and its response goes out.
C38_Step ==
    \A w \in Workers :
        hw[w].pc = "update" /\ hw'[w].pc = "idle" =>
            /\ hev'.kind = "update" /\ hev'.status \in {200, 500}
            /\ IF hev'.status = 200
               THEN /\ \E v \in videos' : v.id = hw[w].video_id
                    /\ [user_id |-> hw[w].user_id, video_id |-> hw[w].video_id,
                        position_seconds |-> hw[w].position] \in watch_history'
               ELSE watch_history' = watch_history
            /\ (~\E v \in videos : v.id = hw[w].video_id) => hev'.status = 500

\* C38: every watch_history row references a videos row that exists; an
\* update answers 200 and stores its row only for a video that exists when
\* the upsert commits; an update whose video was pruned between the
\* handler's existence check and its upsert stores nothing and fails.
C38_HistoryReferencesVideo == []C38_State /\ [][C38_Step]_vars

\* The video passed the handler's existence check, a synchronization
\* pruned it together with the row an earlier update had stored, and the
\* upsert has failed: nothing is stored for the video.
C38_Witness ==
    /\ hev.kind = "update" /\ hev.status = 500 /\ hev.video_id > 0
    /\ commits[<<hev.user_id, hev.video_id>>] # {}
    /\ ~\E v \in videos : v.id = hev.video_id
    /\ ~\E r \in watch_history : r.video_id = hev.video_id


(***************************************************************************)
(* SpecAuthStore: the session protocol on a store whose videos and         *)
(* watch_history tables hold rows.                                         *)
(***************************************************************************)
InitAuthStore ==
    /\ now = 0
    /\ users = ensure_default_users({}, 1, [n \in defaultNames |-> "s1"])
    /\ sessions = {}
    /\ wk = [w \in Workers |-> ctx0]
    /\ issued = {} /\ revoked = {} /\ rejected = {}
    /\ create_ok = [n \in RegisterNames |-> 0]
    /\ out = out0
    /\ dir = { <<"a", "_", "1", ".", "m", "p", "4">> }
    /\ dir_mtime_v = 0 /\ clock = 0
    /\ videos = sync_alone({}, dir, {})
    /\ sy = <<>> /\ watch = <<>> /\ changes = 0 /\ faults = 0 /\ ev = <<>>
    /\ watch_history = {[user_id |-> r.id, video_id |-> 1, position_seconds |-> 3] :
                          r \in users}
    /\ hw = <<>> /\ commits = <<>> /\ hev = <<>>
    /\ ExtIdleInit

SpecAuthStore == InitAuthStore /\ [][NextAuth]_vars

\* The token whose session the step deletes, when worker w runs
\* auth_handle_logout or the expired-session cleanup of load_session in it.
presented_token(w) ==
    IF wk[w].pc = "handler" /\ wk'[w].pc = "idle" /\ out'.kind = "logout"
    THEN {logout_token(wk[w])}
    ELSE IF wk[w].pc = "auth_delete_expired" /\ wk'[w].pc = "handler"
    THEN {wk[w].cookie}
    ELSE {}

\* C39: logout and the expired-session cleanup of the authenticate path
\* delete only the session row of the presented token: every other session
\* row, of the same user or of another, and every users, videos and
\* watch_history row is left as it was.
C39_DeletesOnlyPresented ==
    [][\A w \in Workers : \A tok \in presented_token(w) :
          /\ sessions' = {s \in sessions : s.token # tok}
          /\ users' = users /\ videos' = videos
          /\ watch_history' = watch_history]_vars

\* A user logged in twice and logged out the first token; a request with
\* the second token has just been authenticated, and the store still holds
\* the users, videos and watch_history rows.
C39_Witness ==
    /\ out.kind = "auth" /\ out.authenticated
    /\ \E a, b \in issued :
         /\ a.token # b.token /\ a.user_id = b.user_id
         /\ a.token \in revoked /\ b.token = out.cookie
         /\ db_get_session(sessions, b.token).rc = 0
         /\ db_get_session(sessions, a.token).rc # 0
    /\ videos # {} /\ Cardinality(watch_history) = Cardinality(users)


(***************************************************************************)
(* SpecIsolation: the history handlers and the list handler with its       *)
(* resumeSeconds, serving the requests of two users one after another.     *)
(***************************************************************************)
\* video_handle_list on an unmodified directory: the session check,
\* sync_media_directory (its result is not looked at), db_list_watch_history
\* into the resume_map, db_query_videos and the 200; 500 when the history
\* or the query statement fails.  The handler's store operations are taken
\* in one step.
VideoList(w, A) ==
    /\ hw[w].pc = "idle"
    /\ \E authenticated \in A :
         IF ~authenticated
         THEN /\ hev' = [hrespond(hw0, 401) EXCEPT !.kind = "list"]
              /\ UNCHANGED videos
         ELSE \E u \in UserIds, synced \in BOOLEAN, ok \in BOOLEAN :
           /\ videos' = IF synced
                        THEN sync_alone(videos, {e \in dir : sync_keeps(e)}, {})
                        ELSE videos
           /\ hev' = IF ~ok
                     THEN [hrespond(hw0, 500) EXCEPT !.kind = "list", !.user_id = u]
                     ELSE [hrespond(hw0, 200) EXCEPT
                             !.kind = "list", !.user_id = u,
                             !.rows = video_rows(watch_history, videos', u)]
    /\ watch_history' = on_delete_cascade(watch_history, videos')
    /\ UNCHANGED <<hw, commits>>
    /\ UNCHANGED <<dir, dir_mtime_v, clock, sy, watch, changes, faults, ev>>
    /\ authIdle /\ UNCHANGED extVars

NextIsolation ==
    \/ HistoryCheck(Updater, {TRUE})
    \/ HistoryUpdate(Updater)
    \/ HistoryGet(Updater, BOOLEAN)
    \/ VideoList(Updater, BOOLEAN)

SpecIsolation == InitHistory /\ [][NextIsolation]_vars

\* The watch_history tables that hold u's rows of hist and any rows of the
\* other users, one at most for each user and video.
same_for(u, hist) ==
    LET own   == {r \in hist : r.user_id = u}
        other == [user_id : UserIds \ {u}, video_id : {v.id : v \in videos},
                  position_seconds : {p \in Positions : p >= 0}]
    IN  {own \cup rows : rows \in {S \in SUBSET other :
            \A r1, r2 \in S :
                r1.user_id = r2.user_id /\ r1.video_id = r2.video_id => r1 = r2}}

C40_State ==
    hev.status = 200 =>
        \A hist \in same_for(hev.user_id, watch_history) :
            /\ hev.kind = "get" =>
                 hev.rows = history_rows(hist, videos, hev.user_id)
            /\ hev.kind = "list" =>
                 hev.rows = video_rows(hist, videos, hev.user_id)

C40_Step ==
    \A w \in Workers :
        hw[w].pc = "update" /\ hw'[w].pc = "idle" =>
            \A r \in (watch_history \ watch_history') \cup (watch_history' \ watch_history) :
                r.user_id = hw[w].user_id /\ r.video_id = hw[w].video_id

\* C40: the rows of GET /api/history and the resumeSeconds of GET
\* /api/videos answered to user U are the same for every store that has U's
\* watch_history rows, whatever rows of other users it holds; a history
\* update of U creates or changes only the row keyed by (U, video).
C40_HistoryIsolated == []C40_State /\ [][C40_Step]_vars

\* Both users have a position for video 1, different ones; the list
\* answered to user 1 carries user 1's.
C40_Witness ==
    /\ hev.kind = "list" /\ hev.status = 200 /\ hev.user_id = 1
    /\ [user_id |-> 1, video_id |-> 1, position_seconds |-> 3] \in watch_history
    /\ [user_id |-> 2, video_id |-> 1, position_seconds |-> 7] \in watch_history
    /\ [id |-> 1, resumeSeconds |-> 3] \in hev.rows

====
